---- MODULE Spec2Model ----
(***************************************************************************)
(* Authentication and session lifecycle of the movie app frontend:         *)
(*   - updateSession, the route-protection middleware                      *)
(*     (frontend/src/lib/supabase/middleware.ts);                          *)
(*   - the password-reset e-mail operations of AuthService and             *)
(*     PasswordResetService (frontend/src/lib/auth.ts, password reset      *)
(*     service);                                                           *)
(*   - the DashboardPasswordReset component                                *)
(*     (frontend/src/components/auth/DashboardPasswordReset.tsx);          *)
(*   - RegisterForm, ResetPasswordForm and the two forgot-password forms;  *)
(*   - PasswordResetService.extractTokensFromUrl;                          *)
(*   - the operations of AuthService, one call at a time;                  *)
(*   - the useSupabaseSession hook;                                        *)
(*   - the dashboard, profile, login and register pages under the auth     *)
(*     context.                                                            *)
(* The identity provider (the Supabase client) is the environment: each of *)
(* its calls resolves to a nondeterministically chosen outcome.            *)
(***************************************************************************)
EXTENDS Integers, Sequences, FiniteSets, TLC

VARIABLES
    \* ---- updateSession (one request at a time) ----
    mwPc,          \* "idle" | "getUser" (awaiting supabase.auth.getUser) | "done" | "threw"
    reqPath,       \* request.nextUrl.pathname
    reqCookies,    \* request.cookies (name -> value)
    response,      \* the local variable `response`
    setAllCalls,   \* the cookiesToSet lists the provider handed to cookies.setAll
    mwUser,        \* data.user of the getUser result
    mwError,       \* error of the getUser result (read, never used, by updateSession)
    mwResult,      \* what updateSession returned
    mwNav,         \* the navigation the request belongs to: [hops (redirects followed),
                   \*   cookie (the browser's), user (of the last decision),
                   \*   same (every decision of the navigation saw the same user)]
    \* ---- sendPasswordResetEmail / sendResetEmail ----
    accounts,      \* the e-mail addresses that have an account at the provider
    mailPc,        \* "idle" | "await" | "done"
    mailCall,      \* the pending call: [service, email]
    mailOutcome,   \* what the provider's resetPasswordForEmail did
    mailResult,    \* what the service returned to its caller
    \* ---- DashboardPasswordReset ----
    formData,      \* [password, confirmPassword, nonce]
    errors,        \* [password, confirmPassword, nonce]  ("" = no error)
    isLoading,
    isSuccess,
    needsReauth,
    reauthSent,
    dprPc,         \* "idle" | "awaitUpdate" | "awaitReauthAuto" | "awaitReauthUser"
    closure,       \* formData and needsReauth as captured by the running handlePasswordUpdate
    submission,    \* the running or last submission: the calls it made and their outcomes
    lastReauth,    \* the last handleSendReauth: who started it and how it ended
    toast,         \* the last toast shown: [kind, text]
    \* ---- RegisterForm ----
    regData,       \* formData: [email, password, confirmPassword, fullName]
    regErrors,     \* errors: [email, fullName, password, confirmPassword, submit]
    regLoading,    \* isLoading
    regPc,         \* "idle" | "awaitSignUp"
    regTimers,     \* the pending setTimeout(validateField, 300) calls: <<[field, value]>>
    regCall,       \* the last signUp call: [made, formData (as captured), outcome]
    regSwitch,     \* the setTimeout(onSwitchToLogin, 3000): "none" | "pending" | "fired"
    \* ---- ResetPasswordForm ----
    rpfData,       \* formData: [password, confirmPassword]
    rpfErrors,     \* errors: [password, confirmPassword, submit]
    rpfLoading,    \* isLoading
    isTokenValid,  \* "null" | "true" | "false"
    rpfSuccess,    \* isSuccess
    rpfPc,         \* "verify" (awaiting verifyPasswordResetToken) | "idle" | "awaitUpdate"
    rpfCall,       \* the last updatePassword call: [made, formData (as captured), outcome]
    rpfVerify,     \* what verifyPasswordResetToken returned to verifyToken: [settled, valid]
    \* ---- ForgotPasswordForm / NewForgotPasswordForm ----
    fpfForm,       \* which of the two is mounted ("none" before one is)
    fpfEmail,      \* email
    fpfError,      \* error
    fpfLoading,    \* isLoading
    fpfSuccess,    \* isSuccess
    fpfPc,         \* "idle" | "await"
    fpfCall,       \* the last send-reset-email call: [made, email, outcome]
    \* ---- the browser ----
    page,          \* the page on the screen, when the forms are taken together
    \* ---- PasswordResetService.extractTokensFromUrl ----
    location,      \* window.location: [window, search, hash] (window FALSE: no window)
    tokPc,         \* "idle" | "done"
    tokResult,     \* what extractTokensFromUrl returned: [accessToken, refreshToken]
    prsCalls,      \* the calls of PasswordResetService.updatePassword, by call:
                   \*   [pc, newPassword, providerCalls, sessionResult, result,
                   \*    afterFailedUpdate]
    \* ---- AuthService, operation by operation ----
    asSession,     \* the provider client holds a session
    asPc,          \* "idle" | "await" | "done"
    asCall,        \* the operation called: [op, arg, session (asSession at the call)]
    asOutcome,     \* what the provider call did
    asResult,      \* how the operation's promise settled: [settled, error, valid]
    \* ---- useSupabaseSession ----
    providerSession,   \* the session the provider client holds
    listeners,         \* the callbacks registered with onAuthStateChange and not unsubscribed
    hookStatus,        \* per component using the hook: "new" | "mounted" | "gone"
    hookSession,       \* per component: the state `session`
    subscription,      \* per component: the `subscription` its effect holds
    unsubscribeCalls,  \* per subscription: the calls of unsubscribe()
    pendingGetSession, \* the getSession() promises not yet resolved
    lateSetSession,    \* per component: setSession was called after its teardown
    \* ---- the auth context and the pages that read it ----
    navSession,    \* the provider holds a session
    ctxUser,       \* useAuth().user is not null
    ctxLoading,    \* useAuth().loading
    ctxPc,         \* the AuthProvider: "session" (first getSession pending) | "profile" | "idle"
    route,         \* the page on the screen
    loginPc,       \* LoginForm.handleSubmit: "idle" | "await" | "signed" (result back, not yet read)
    lastPush       \* the last router.push of a page: [by, from, to, user, loading]

mwVars   == <<mwPc, reqPath, reqCookies, response, setAllCalls, mwUser, mwError, mwResult,
              mwNav>>
mailVars == <<accounts, mailPc, mailCall, mailOutcome, mailResult>>
dprVars  == <<formData, errors, isLoading, isSuccess, needsReauth, reauthSent, dprPc,
              closure, submission, lastReauth, toast>>
regVars  == <<regData, regErrors, regLoading, regPc, regTimers, regCall, regSwitch>>
rpfVars  == <<rpfData, rpfErrors, rpfLoading, isTokenValid, rpfSuccess, rpfPc, rpfCall,
              rpfVerify>>
fpfVars  == <<fpfForm, fpfEmail, fpfError, fpfLoading, fpfSuccess, fpfPc, fpfCall>>
tokVars  == <<location, tokPc, tokResult, prsCalls>>
asVars   == <<asSession, asPc, asCall, asOutcome, asResult>>
hookVars == <<providerSession, listeners, hookStatus, hookSession, subscription,
              unsubscribeCalls, pendingGetSession, lateSetSession>>
navVars  == <<navSession, ctxUser, ctxLoading, ctxPc, route, loginPc, lastPush>>
vars     == <<mwVars, mailVars, dprVars, regVars, rpfVars, fpfVars, page, tokVars, asVars,
              hookVars, navVars>>

\* What the actions of one component leave alone: the other components
exceptMwVars   == <<mailVars, dprVars, regVars, rpfVars, fpfVars, page, tokVars,
                   asVars, hookVars, navVars>>
exceptMailVars == <<mwVars, dprVars, regVars, rpfVars, fpfVars, page, tokVars,
                   asVars, hookVars, navVars>>
exceptDprVars  == <<mwVars, mailVars, regVars, rpfVars, fpfVars, page, tokVars,
                   asVars, hookVars, navVars>>
exceptRegVars  == <<mwVars, mailVars, dprVars, rpfVars, fpfVars, page, tokVars,
                   asVars, hookVars, navVars>>
exceptRpfVars  == <<mwVars, mailVars, dprVars, regVars, fpfVars, page, tokVars,
                   asVars, hookVars, navVars>>
exceptFpfVars  == <<mwVars, mailVars, dprVars, regVars, rpfVars, page, tokVars,
                   asVars, hookVars, navVars>>
exceptTokVars  == <<mwVars, mailVars, dprVars, regVars, rpfVars, fpfVars, page,
                   asVars, hookVars, navVars>>
exceptAsVars   == <<mwVars, mailVars, dprVars, regVars, rpfVars, fpfVars, page,
                   tokVars, hookVars, navVars>>
exceptHookVars == <<mwVars, mailVars, dprVars, regVars, rpfVars, fpfVars, page,
                   tokVars, asVars, navVars>>
exceptNavVars == <<mwVars, mailVars, dprVars, regVars, rpfVars, fpfVars, page, tokVars,
                   asVars, hookVars>>

Null == "null"

(***************************************************************************)
(* JavaScript string primitives                                            *)
(***************************************************************************)

\* String.prototype.startsWith
StartsWith(s, prefix) ==
    /\ Len(s) >= Len(prefix)
    /\ SubSeq(s, 1, Len(prefix)) = prefix

\* String.prototype.includes
Includes(s, sub) ==
    \E i \in 1..(Len(s) - Len(sub) + 1) : SubSeq(s, i, i + Len(sub) - 1) = sub

UpperToLower ==
    [A |-> "a", B |-> "b", C |-> "c", D |-> "d", E |-> "e", F |-> "f", G |-> "g",
     H |-> "h", I |-> "i", J |-> "j", K |-> "k", L |-> "l", M |-> "m", N |-> "n",
     O |-> "o", P |-> "p", Q |-> "q", R |-> "r", S |-> "s", T |-> "t", U |-> "u",
     V |-> "v", W |-> "w", X |-> "x", Y |-> "y", Z |-> "z"]

RECURSIVE ToLowerCase(_)
\* String.prototype.toLowerCase
ToLowerCase(s) ==
    IF Len(s) = 0 THEN ""
    ELSE IF Len(s) = 1
    THEN (IF s \in DOMAIN UpperToLower THEN UpperToLower[s] ELSE s)
    ELSE ToLowerCase(SubSeq(s, 1, Len(s) \div 2))
             \o ToLowerCase(SubSeq(s, Len(s) \div 2 + 1, Len(s)))

(***************************************************************************)
(* updateSession: frontend/src/lib/supabase/middleware.ts                  *)
(***************************************************************************)

\* The list with one route forgotten
protectedRoutesWithoutWatchlist ==
    <<"/dashboard", "/profile", "/favorites", "/reviews/create", "/movies/rate">>

protectedRoutes ==
    <<"/dashboard", "/profile", "/favorites", "/watchlist", "/reviews/create", "/movies/rate">>

\* The list with the reset page forgotten
authRoutesWithoutResetPassword ==
    <<"/auth/login", "/auth/register", "/auth/forgot-password">>

authRoutes ==
    <<"/auth/login", "/auth/register", "/auth/forgot-password", "/auth/reset-password">>

authCallbackRoutes == <<"/auth/callback", "/auth/auth-code-error">>

\* Exact match where the code matches by prefix
isProtectedRouteExact(pathname) ==
    \E i \in 1..Len(protectedRoutes) : pathname = protectedRoutes[i]

isProtectedRoute(pathname) ==
    \E i \in 1..Len(protectedRoutes) : StartsWith(pathname, protectedRoutes[i])

\* Prefix match where the code matches exactly
isAuthRoutePrefix(pathname) ==
    \E i \in 1..Len(authRoutes) : StartsWith(pathname, authRoutes[i])

isAuthRoute(pathname) ==
    \E i \in 1..Len(authRoutes) : pathname = authRoutes[i]

isAuthCallbackRoute(pathname) ==
    \E i \in 1..Len(authCallbackRoutes) : StartsWith(pathname, authCallbackRoutes[i])

\* The session cookie the provider's client reads and writes.  Its value stands
\* for the token pair it carries; "" is "no cookie" (a removal sets "").
TokenCookie  == "sb-auth-token"
CookieNames  == {TokenCookie}
NoCookie     == ""
ValidPair    == "pair-1"         \* access token still valid
ExpiredPair  == "pair-0-expired" \* access token expired, refresh token usable or not
GarbagePair  == "garbage"        \* malformed token
RefreshedPair == "pair-2"        \* the pair a refresh issues
ValidPairs   == {ValidPair, RefreshedPair}
IncomingCookieValues == {NoCookie, ValidPair, ExpiredPair, GarbagePair}

EmptyJar == [n \in CookieNames |-> NoCookie]

\* cookies.set(name, value) for every element of cookiesToSet, in order
RECURSIVE SetEach(_, _)
SetEach(jar, cookiesToSet) ==
    IF cookiesToSet = <<>> THEN jar
    ELSE SetEach([jar EXCEPT ![Head(cookiesToSet).name] = Head(cookiesToSet).value],
                 Tail(cookiesToSet))

NoLocation == [pathname |-> "", searchParams |-> <<>>]

\* updateSession has returned nothing (yet)
NoResponse == [kind |-> "none", location |-> NoLocation, cookies |-> EmptyJar]

\* NextResponse.next(...)
NextResponseNext == [kind |-> "next", location |-> NoLocation, cookies |-> EmptyJar]

\* NextResponse.redirect(url): a new response; it starts with no cookies of its own
NextResponseRedirect(url) == [kind |-> "redirect", location |-> url, cookies |-> EmptyJar]

\* new URL(path, request.url) followed by searchParams.set(...) calls
NewURL(pathname, params) == [pathname |-> pathname, searchParams |-> params]

\* URLSearchParams.get
SearchParamsGet(url, name) ==
    IF \E i \in 1..Len(url.searchParams) : url.searchParams[i][1] = name
    THEN LET i == CHOOSE i \in 1..Len(url.searchParams) : url.searchParams[i][1] = name
         IN  url.searchParams[i][2]
    ELSE Null

\* The decision without the exemption of the callback routes, the auth pages
\* recognised by their common /auth prefix
RedirectDecisionAuthPrefix(pathname, user, resp) ==
    IF user # Null /\ StartsWith(pathname, "/auth")
    THEN NextResponseRedirect(NewURL("/dashboard", <<>>))
    ELSE IF user = Null /\ isProtectedRoute(pathname)
         THEN NextResponseRedirect(NewURL("/auth/login", <<<<"redirectTo", pathname>>>>))
    ELSE resp

\* The decision with every page but the callback routes asking for a user
RedirectDecisionAllProtected(pathname, user, resp) ==
    IF isAuthCallbackRoute(pathname) THEN resp
    ELSE IF user # Null /\ isAuthRoute(pathname)
         THEN NextResponseRedirect(NewURL("/dashboard", <<>>))
    ELSE IF user = Null
         THEN NextResponseRedirect(NewURL("/auth/login", <<<<"redirectTo", pathname>>>>))
    ELSE resp

\* updateSession after getUser has resolved: lines 51-80
RedirectDecision(pathname, user, resp) ==
    IF isAuthCallbackRoute(pathname) THEN resp
    ELSE IF user # Null /\ isAuthRoute(pathname)
         THEN NextResponseRedirect(NewURL("/dashboard", <<>>))
    ELSE IF user = Null /\ isProtectedRoute(pathname)
         THEN NextResponseRedirect(NewURL("/auth/login", <<<<"redirectTo", pathname>>>>))
    ELSE resp

\* cookies.setAll(cookiesToSet): lines 19-27
SetAllResponse(cookiesToSet) ==
    [NextResponseNext EXCEPT !.cookies = SetEach(EmptyJar, cookiesToSet)]

RequestPaths ==
    {"/dashboard", "/profile", "/favorites", "/watchlist", "/reviews/create", "/movies/rate",
     "/auth/login", "/auth/register", "/auth/forgot-password", "/auth/reset-password",
     "/auth/callback", "/auth/auth-code-error",
     "/", "/movies", "/movies/42", "/reviews", "/auth",
     "/dashboard/settings", "/profile-x", "/movies/rate/42",
     "/auth/login/", "/auth/callback/next"}

UserOf == "user-1"
NoAuthError == "none"

MwInit ==
    /\ mwPc = "idle"
    /\ reqPath = "/"
    /\ reqCookies = EmptyJar
    /\ response = NextResponseNext
    /\ setAllCalls = <<>>
    /\ mwUser = Null
    /\ mwError = NoAuthError
    /\ mwResult = NoResponse
    /\ mwNav = [hops |-> 0, cookie |-> NoCookie, user |-> Null, same |-> TRUE]

\* A request arrives: lines 4-33 up to the await of supabase.auth.getUser()
MwRequest(pathname, cookie) ==
    /\ mwPc \in {"idle", "done", "threw"}
    /\ reqPath' = pathname
    /\ reqCookies' = [EmptyJar EXCEPT ![TokenCookie] = cookie]
    /\ response' = NextResponseNext
    /\ setAllCalls' = <<>>
    /\ mwUser' = Null
    /\ mwError' = NoAuthError
    /\ mwResult' = NoResponse
    /\ mwNav' = [hops |-> 0, cookie |-> cookie, user |-> Null, same |-> TRUE]
    /\ mwPc' = "getUser"
    /\ UNCHANGED <<exceptMwVars>>

\* The redirects one navigation may follow
MaxRedirects == 3

\* The browser's session cookie once it has the response: the one the response
\* sets, or else the one it sent
BrowserCookie(resp, sent) ==
    IF resp.cookies[TokenCookie] # NoCookie THEN resp.cookies[TokenCookie] ELSE sent

\* The browser follows the redirect updateSession returned: a new request for
\* the target, through updateSession again
MwFollowRedirect ==
    /\ mwPc = "done" /\ mwResult.kind = "redirect"
    /\ mwNav.hops < MaxRedirects
    /\ reqPath' = mwResult.location.pathname
    /\ reqCookies' = [EmptyJar EXCEPT ![TokenCookie] = BrowserCookie(mwResult, mwNav.cookie)]
    /\ response' = NextResponseNext
    /\ setAllCalls' = <<>>
    /\ mwUser' = Null
    /\ mwError' = NoAuthError
    /\ mwResult' = NoResponse
    /\ mwNav' = [mwNav EXCEPT !.hops = @ + 1,
                              !.cookie = BrowserCookie(mwResult, mwNav.cookie)]
    /\ mwPc' = "getUser"
    /\ UNCHANGED <<exceptMwVars>>

\* The provider's client calls cookies.setAll while getUser is pending.
MwSetAll(cookiesToSet) ==
    /\ mwPc = "getUser"
    /\ reqCookies' = SetEach(reqCookies, cookiesToSet)
    /\ response' = SetAllResponse(cookiesToSet)
    /\ setAllCalls' = Append(setAllCalls, cookiesToSet)
    /\ UNCHANGED <<mwPc, reqPath, mwUser, mwError, mwResult, mwNav, exceptMwVars>>

\* The expired session is refreshed: the new token pair is handed to setAll.
ProviderRefreshes ==
    /\ reqCookies[TokenCookie] = ExpiredPair
    /\ MwSetAll(<<[name |-> TokenCookie, value |-> RefreshedPair]>>)

\* The refresh is rejected, or the token is malformed: the session cookie is removed.
ProviderRemovesSession ==
    /\ reqCookies[TokenCookie] \in {ExpiredPair, GarbagePair}
    /\ MwSetAll(<<[name |-> TokenCookie, value |-> NoCookie]>>)

\* The { data: { user }, error } results getUser can resolve with, given the
\* session cookie as it now stands: the user for a valid pair; otherwise no user
\* and an error, which says that there is no session, that the token was
\* rejected (malformed, or expired and not refreshed), or that the provider
\* could not be reached.
GetUserResults ==
    LET cookie == reqCookies[TokenCookie]
    IN  (IF cookie \in ValidPairs THEN {[user |-> UserOf, error |-> NoAuthError]} ELSE {})
        \cup (IF cookie = NoCookie THEN {[user |-> Null, error |-> "AuthSessionMissingError"]}
              ELSE {[user |-> Null, error |-> "AuthRetryableFetchError"]})
        \cup (IF cookie \in {ExpiredPair, GarbagePair}
              THEN {[user |-> Null, error |-> "AuthApiError"]} ELSE {})

\* getUser resolves: updateSession runs to its return (lines 33-80)
MwGetUserReturns(result) ==
    /\ mwPc = "getUser"
    /\ mwUser' = result.user
    /\ mwError' = result.error
    /\ mwResult' = RedirectDecision(reqPath, result.user, response)
    /\ mwNav' = [mwNav EXCEPT !.user = result.user,
                              !.same = @ /\ (mwNav.hops = 0 \/ result.user = mwNav.user)]
    /\ mwPc' = "done"
    /\ UNCHANGED <<reqPath, reqCookies, response, setAllCalls, exceptMwVars>>

\* getUser rejects: updateSession has no try/catch, so its own promise rejects
MwGetUserThrows ==
    /\ mwPc = "getUser"
    /\ mwResult' = NoResponse
    /\ mwPc' = "threw"
    /\ UNCHANGED <<reqPath, reqCookies, response, setAllCalls, mwUser, mwError, mwNav,
                   exceptMwVars>>

MwNext ==
    \/ \E p \in RequestPaths, c \in IncomingCookieValues : MwRequest(p, c)
    \/ ProviderRefreshes
    \/ ProviderRemovesSession
    \/ \E r \in GetUserResults : MwGetUserReturns(r)
    \/ MwGetUserThrows
    \/ MwFollowRedirect

(***************************************************************************)
(* Password reset e-mail: AuthService.sendPasswordResetEmail               *)
(* (frontend/src/lib/auth.ts) and PasswordResetService.sendResetEmail      *)
(***************************************************************************)

Emails == {"ann@example.com", "bob@example.com", "eve@example.com"}

\* What supabase.auth.resetPasswordForEmail can do: resolve without an error,
\* resolve with an error (a message), or reject.
RateLimitMessage == "For security purposes, you can only request this once every 60 seconds"
UserNotFoundMessage == "User not found"

ProviderOk(outcome)     == outcome.kind = "ok"
ProviderError(outcome)  == outcome.kind = "error"
ProviderThrows(outcome) == outcome.kind = "throw"

NoOutcome == [kind |-> "none", message |-> ""]

\* The outcomes the provider may produce for an address: a rate limit or a
\* transport failure whoever asks, "User not found" only for an unknown address
\* (the answer the forgot-password form's test supposes).
ResetEmailOutcomesFor(exists) ==
    {[kind |-> "ok", message |-> ""],
     [kind |-> "error", message |-> RateLimitMessage],
     [kind |-> "throw", message |-> "Failed to fetch"]}
    \cup (IF exists THEN {} ELSE {[kind |-> "error", message |-> UserNotFoundMessage]})

ResetEmailOutcomes(email) == ResetEmailOutcomesFor(email \in accounts)

NoError == [isNull |-> TRUE, message |-> ""]
ErrorOf(message) == [isNull |-> FALSE, message |-> message]

\* The provider's error swallowed: a success-shaped result whatever happened
sendPasswordResetEmailAlwaysOk(outcome) == [error |-> NoError]

\* AuthService.sendPasswordResetEmail: { error: AuthError | null }
sendPasswordResetEmail(outcome) ==
    IF ProviderThrows(outcome) THEN [error |-> ErrorOf("Failed to send password reset email")]
    ELSE IF ProviderError(outcome) THEN [error |-> ErrorOf(outcome.message)]
    ELSE [error |-> NoError]

\* PasswordResetService.sendResetEmail: { success, error? }, here in the same shape
sendResetEmail(outcome) ==
    IF ProviderThrows(outcome) THEN [error |-> ErrorOf("Failed to send password reset email")]
    ELSE IF ProviderError(outcome) THEN [error |-> ErrorOf(outcome.message)]
    ELSE [error |-> NoError]

MailServices == {"AuthService", "PasswordResetService"}

NoMailCall == [service |-> "", email |-> ""]

MailInit ==
    /\ accounts = {}
    /\ mailPc = "idle"
    /\ mailCall = NoMailCall
    /\ mailOutcome = NoOutcome
    /\ mailResult = [error |-> NoError]

\* Somebody registers an address at the provider.
MailAccountCreated(email) ==
    /\ email \notin accounts
    /\ accounts' = accounts \cup {email}
    /\ UNCHANGED <<mailPc, mailCall, mailOutcome, mailResult, exceptMailVars>>

\* The caller invokes the service; the service awaits resetPasswordForEmail.
MailSend(service, email) ==
    /\ mailPc \in {"idle", "done"}
    /\ mailCall' = [service |-> service, email |-> email]
    /\ mailOutcome' = NoOutcome
    /\ mailResult' = [error |-> NoError]
    /\ mailPc' = "await"
    /\ UNCHANGED <<accounts, exceptMailVars>>

\* The provider call settles and the service returns its result.
MailSettles(outcome) ==
    /\ mailPc = "await"
    /\ mailOutcome' = outcome
    /\ mailResult' = IF mailCall.service = "AuthService"
                     THEN sendPasswordResetEmail(outcome)
                     ELSE sendResetEmail(outcome)
    /\ mailPc' = "done"
    /\ UNCHANGED <<accounts, mailCall, exceptMailVars>>

MailNext ==
    \/ \E e \in Emails : MailAccountCreated(e)
    \/ \E s \in MailServices, e \in Emails : MailSend(s, e)
    \/ \E o \in ResetEmailOutcomes(mailCall.email) : MailSettles(o)

(***************************************************************************)
(* AuthService.updatePassword and AuthService.reauthenticate               *)
(* (frontend/src/lib/auth.ts)                                              *)
(***************************************************************************)

Undefined == "undefined"

\* The nonce left out of updateData
UpdateDataWithoutNonce(newPassword, nonce) ==
    [password |-> newPassword, hasNonce |-> FALSE, nonce |-> ""]

\* updateData as built by AuthService.updatePassword: the nonce is included
\* only when it is truthy (given and non-empty)
UpdateData(newPassword, nonce) ==
    IF nonce # Undefined /\ nonce # ""
    THEN [password |-> newPassword, hasNonce |-> TRUE, nonce |-> nonce]
    ELSE [password |-> newPassword, hasNonce |-> FALSE, nonce |-> ""]

\* AuthService.updatePassword, from the outcome of supabase.auth.updateUser.
\* A thrown Error's own message is returned; any other thrown value gives the
\* fixed text.
\* On success user is data.user or the stand-in { updated: true }: truthy.
updatePasswordResult(outcome) ==
    IF ProviderThrows(outcome)
    THEN [user |-> FALSE,
          error |-> ErrorOf(IF outcome.isError THEN outcome.message
                            ELSE "Failed to update password")]
    ELSE IF ProviderError(outcome) THEN [user |-> FALSE, error |-> ErrorOf(outcome.message)]
    ELSE [user |-> TRUE, error |-> NoError]

\* AuthService.reauthenticate, from the outcome of supabase.auth.reauthenticate
reauthenticateResult(outcome) ==
    IF ProviderThrows(outcome)
    THEN [error |-> ErrorOf("Failed to send reauthentication nonce")]
    ELSE IF ProviderError(outcome) THEN [error |-> ErrorOf(outcome.message)]
    ELSE [error |-> NoError]

(***************************************************************************)
(* The provider's answers to updateUser and reauthenticate                 *)
(***************************************************************************)

SamePasswordMessage == "New password should be different from the old password."
ReauthNeededMessage == "Password update requires reauthentication"
NonceInvalidMessage == "Nonce has expired or is invalid"
TimeoutMessage      == "Request timeout"
WeakPasswordMessage == "Password is known to be weak and easy to guess"
FetchMessage        == "Failed to fetch"
\* The unchanged-password rejection in texts that also carry the words the
\* component looks for in its later tests (lines 124-127, 143)
SamePasswordReauthMessage ==
    "New password should be different from the old password. Reauthentication nonce was not verified."
SamePasswordTimeoutMessage ==
    "Timeout: the password is the same as the current one"
SamePasswordMessages ==
    {SamePasswordMessage, SamePasswordReauthMessage, SamePasswordTimeoutMessage}

ErrorOutcome(message) == [kind |-> "error", isError |-> TRUE, message |-> message]
OkOutcome == [kind |-> "ok", isError |-> FALSE, message |-> ""]
NoUpdateOutcome == [kind |-> "none", isError |-> FALSE, message |-> ""]

\* updateUser(updateData): accepted; rejected because the password is unchanged,
\* weak, or the request timed out; rejected for reauthentication when no nonce
\* came with it; rejected for the nonce when one did; or the client throws.
UpdateUserOutcomes(updateData) ==
    {OkOutcome,
     ErrorOutcome(TimeoutMessage),
     ErrorOutcome(WeakPasswordMessage),
     [kind |-> "throw", isError |-> TRUE, message |-> FetchMessage],
     [kind |-> "throw", isError |-> FALSE, message |-> ""]}
    \cup {ErrorOutcome(m) : m \in SamePasswordMessages}
    \cup (IF updateData.hasNonce
          THEN {ErrorOutcome(NonceInvalidMessage)}
          ELSE {ErrorOutcome(ReauthNeededMessage)})

ReauthenticateOutcomes ==
    {OkOutcome,
     ErrorOutcome(RateLimitMessage),
     [kind |-> "throw", isError |-> TRUE, message |-> FetchMessage]}

(***************************************************************************)
(* DashboardPasswordReset                                                  *)
(* (frontend/src/components/auth/DashboardPasswordReset.tsx)               *)
(***************************************************************************)

LowerChars == {UpperToLower[c] : c \in DOMAIN UpperToLower}
UpperChars == DOMAIN UpperToLower
DigitChars == {"0", "1", "2", "3", "4", "5", "6", "7", "8", "9"}
SpecialChars ==
    {"!", "@", "#", "$", "%", "^", "&", "*", "(", ")", "_", "+", "-", "=", "[", "]",
     "{", "}", ";", "'", ":", "\"", "\\", "|", ",", ".", "<", ">", "/", "?"}

\* RegExp /(?=.*[class])/.test(s): some character of s is in the class
HasCharIn(s, class) == \E i \in 1..Len(s) : SubSeq(s, i, i) \in class

MinPasswordLength == 8
MaxPasswordLength == 128

\* validatePassword with the uppercase test ahead of the lowercase test
validatePasswordUpperFirst(password) ==
    IF password = "" THEN "Password is required"
    ELSE IF Len(password) < MinPasswordLength THEN "Password must be at least 8 characters"
    ELSE IF Len(password) > MaxPasswordLength THEN "Password is too long"
    ELSE IF ~HasCharIn(password, UpperChars)
         THEN "Password must contain at least one uppercase letter"
    ELSE IF ~HasCharIn(password, LowerChars)
         THEN "Password must contain at least one lowercase letter"
    ELSE IF ~HasCharIn(password, DigitChars) THEN "Password must contain at least one number"
    ELSE IF ~HasCharIn(password, SpecialChars)
         THEN "Password must contain at least one special character"
    ELSE ""

validatePassword(password) ==
    IF password = "" THEN "Password is required"
    ELSE IF Len(password) < MinPasswordLength THEN "Password must be at least 8 characters"
    ELSE IF Len(password) > MaxPasswordLength THEN "Password is too long"
    ELSE IF ~HasCharIn(password, LowerChars)
         THEN "Password must contain at least one lowercase letter"
    ELSE IF ~HasCharIn(password, UpperChars)
         THEN "Password must contain at least one uppercase letter"
    ELSE IF ~HasCharIn(password, DigitChars) THEN "Password must contain at least one number"
    ELSE IF ~HasCharIn(password, SpecialChars)
         THEN "Password must contain at least one special character"
    ELSE ""

validateConfirmPassword(password, confirmPassword) ==
    IF confirmPassword = "" THEN "Please confirm your password"
    ELSE IF password # confirmPassword THEN "Passwords do not match"
    ELSE ""

NoErrors == [password |-> "", confirmPassword |-> "", nonce |-> ""]

\* validateForm without its test of the nonce (lines 57-59)
validateFormWithoutNonce(data, reauth) ==
    [password        |-> validatePassword(data.password),
     confirmPassword |-> validateConfirmPassword(data.password, data.confirmPassword),
     nonce           |-> ""]

\* validateForm: the errors it sets
validateForm(data, reauth) ==
    [password        |-> validatePassword(data.password),
     confirmPassword |-> validateConfirmPassword(data.password, data.confirmPassword),
     nonce           |-> IF reauth /\ data.nonce = "" THEN "Verification code is required"
                         ELSE ""]

\* handlePasswordUpdate, lines 114-116
IsSamePasswordError(errorMessage) ==
    \/ Includes(errorMessage, "new password should be different")
    \/ Includes(errorMessage, "same as")
    \/ Includes(errorMessage, "already")

\* handlePasswordUpdate, lines 124-127
IsReauthError(errorMessage) ==
    \/ Includes(errorMessage, "reauthentication")
    \/ Includes(errorMessage, "nonce")
    \/ Includes(errorMessage, "verification")
    \/ Includes(errorMessage, "recent sign")

\* handlePasswordUpdate, line 143
IsTimeoutError(errorMessage) == Includes(errorMessage, "timeout")

\* The branches without the "first time" test the other way round: every
\* reauthentication error sends a new code
UpdateBranchAlwaysSends(result, reauth) ==
    IF result.error.isNull THEN "success"
    ELSE LET errorMessage == ToLowerCase(result.error.message)
         IN  IF IsSamePasswordError(errorMessage) THEN "samePassword"
             ELSE IF IsReauthError(errorMessage) THEN "sendReauth"
             ELSE IF IsTimeoutError(errorMessage) THEN "timeout"
             ELSE "other"

\* The branches without the "first time" test: a reauthentication error is
\* always taken for a bad nonce
UpdateBranchNeverSends(result, reauth) ==
    IF result.error.isNull THEN "success"
    ELSE LET errorMessage == ToLowerCase(result.error.message)
         IN  IF IsSamePasswordError(errorMessage) THEN "samePassword"
             ELSE IF IsReauthError(errorMessage) THEN "badNonce"
             ELSE IF IsTimeoutError(errorMessage) THEN "timeout"
             ELSE "other"

\* The branches with the reauthentication test ahead of the same-password test
UpdateBranchReauthFirst(result, reauth) ==
    IF result.error.isNull THEN "success"
    ELSE LET errorMessage == ToLowerCase(result.error.message)
         IN  IF IsReauthError(errorMessage)
             THEN (IF ~reauth THEN "sendReauth" ELSE "badNonce")
             ELSE IF IsSamePasswordError(errorMessage) THEN "samePassword"
             ELSE IF IsTimeoutError(errorMessage) THEN "timeout"
             ELSE "other"

\* Which branch of handlePasswordUpdate a result of updatePassword takes
UpdateBranch(result, reauth) ==
    IF result.error.isNull THEN "success"
    ELSE LET errorMessage == ToLowerCase(result.error.message)
         IN  IF IsSamePasswordError(errorMessage) THEN "samePassword"
             ELSE IF IsReauthError(errorMessage)
                  THEN (IF ~reauth THEN "sendReauth" ELSE "badNonce")
             ELSE IF IsTimeoutError(errorMessage) THEN "timeout"
             ELSE "other"

EmptyForm == [password |-> "", confirmPassword |-> "", nonce |-> ""]
NoToast == [kind |-> "none", text |-> ""]
ToastError(text) == [kind |-> "error", text |-> text]
ToastSuccess(text) == [kind |-> "success", text |-> text]

NoSubmission ==
    [phase |-> "none", updateData |-> UpdateData("", Undefined), updateCalls |-> 0,
     outcome |-> NoUpdateOutcome, branch |-> "none", reauthCalls |-> 0,
     reauthOk |-> FALSE, onSuccessCalls |-> 0]

PasswordInputs == {"", "weak", "Abcdef1!", "Zyxwvu9#"}
NonceInputs    == {"", "123456", "654321"}

DprInit ==
    /\ formData = EmptyForm
    /\ errors = NoErrors
    /\ isLoading = FALSE
    /\ isSuccess = FALSE
    /\ needsReauth = FALSE
    /\ reauthSent = FALSE
    /\ dprPc = "idle"
    /\ closure = [formData |-> EmptyForm, needsReauth |-> FALSE]
    /\ submission = NoSubmission
    /\ lastReauth = [by |-> "none", ok |-> FALSE]
    /\ toast = NoToast

\* handleInputChange(field): the inputs are disabled while isLoading, the form
\* is not rendered once isSuccess, the nonce field only when needsReauth
DprInputChange(field, value) ==
    /\ ~isLoading /\ ~isSuccess
    /\ field = "nonce" => needsReauth
    /\ formData' = [formData EXCEPT ![field] = value]
    /\ errors' = [errors EXCEPT ![field] = ""]
    /\ UNCHANGED <<isLoading, isSuccess, needsReauth, reauthSent, dprPc, closure,
                   submission, lastReauth, toast, exceptDprVars>>

\* The submit button is enabled (lines 367, 376)
SubmitEnabled ==
    /\ ~isSuccess /\ ~isLoading
    /\ formData.password # "" /\ formData.confirmPassword # ""
    /\ needsReauth => formData.nonce # ""

\* handlePasswordUpdate up to the await of authService.updatePassword
handlePasswordUpdate ==
    /\ LET newErrors == validateForm(formData, needsReauth)
       IN  IF newErrors # NoErrors
           THEN /\ errors' = newErrors
                /\ UNCHANGED <<isLoading, dprPc, closure, submission>>
           ELSE /\ errors' = NoErrors
                /\ isLoading' = TRUE
                /\ closure' = [formData |-> formData, needsReauth |-> needsReauth]
                /\ submission' =
                       [NoSubmission EXCEPT
                           !.phase = "running",
                           !.updateData = UpdateData(formData.password,
                                              IF needsReauth THEN formData.nonce
                                              ELSE Undefined),
                           !.updateCalls = 1]
                /\ dprPc' = "awaitUpdate"
    /\ UNCHANGED <<formData, isSuccess, needsReauth, reauthSent, lastReauth, toast,
                   exceptDprVars>>

\* A click on the enabled submit button submits the form
DprSubmit ==
    /\ SubmitEnabled
    /\ handlePasswordUpdate

\* A submit event that does not come from the button (form.requestSubmit(), a
\* test's fireEvent.submit) while the button is disabled for an empty field:
\* the form's onSubmit runs all the same, and validateForm is what stands
\* between it and the request
DprSubmitEvent ==
    /\ ~isSuccess /\ ~isLoading /\ ~SubmitEnabled
    /\ handlePasswordUpdate

\* The branch of handlePasswordUpdate for each answer of updateUser, with and
\* without needsReauth (UpdateBranch, tabulated)
AllUpdateUserOutcomes ==
    UNION {UpdateUserOutcomes([password |-> "", hasNonce |-> h, nonce |-> ""]) : h \in BOOLEAN}

UpdateBranchOf ==
    [o \in AllUpdateUserOutcomes |->
        [reauth \in BOOLEAN |-> UpdateBranch(updatePasswordResult(o), reauth)]]

\* isLoading left true by every step of the handler after the update
LoadingAfterUpdateKept(branch) == TRUE

\* isLoading left false by every step of the handler after the update
LoadingAfterUpdateDropped(branch) == FALSE

\* isLoading once handlePasswordUpdate has run on from the result of the
\* update: false by the setIsLoading(false) of the branch and of finally, true
\* when handleSendReauth was entered (its setIsLoading(true)) and awaits
LoadingAfterUpdate(branch) == branch = "sendReauth"

\* authService.updatePassword resolves; handlePasswordUpdate runs on to its end
\* or to the await inside handleSendReauth
DprUpdateSettles(outcome) ==
    /\ dprPc = "awaitUpdate"
    /\ LET result == updatePasswordResult(outcome)
           branch == UpdateBranchOf[outcome][closure.needsReauth]
       IN  /\ submission' = [submission EXCEPT
                                !.outcome = outcome,
                                !.branch = branch,
                                !.phase = IF branch = "sendReauth" THEN "running" ELSE "done",
                                !.reauthCalls = IF branch = "sendReauth" THEN 1 ELSE 0,
                                !.onSuccessCalls = IF branch = "success" THEN 1 ELSE 0]
           /\ dprPc' = IF branch = "sendReauth" THEN "awaitReauthAuto" ELSE "idle"
           /\ isLoading' = LoadingAfterUpdate(branch)
           /\ isSuccess' = (isSuccess \/ branch = "success")
           /\ errors' = IF branch = "badNonce"
                        THEN [NoErrors EXCEPT !.nonce =
                                 "Invalid or expired verification code. Please try again."]
                        ELSE IF branch = "sendReauth" THEN NoErrors
                        ELSE errors
           /\ lastReauth' = IF branch = "sendReauth" THEN [by |-> "auto", ok |-> FALSE]
                            ELSE lastReauth
           /\ toast' =
                CASE branch = "success" ->
                        ToastSuccess("Your password has been updated successfully!")
                  [] branch = "samePassword" ->
                        ToastError("New password must be different from your current password. Please choose a different password.")
                  [] branch = "timeout" ->
                        ToastError("Password update timed out. Please try again.")
                  [] branch = "other" -> ToastError(result.error.message)
                  [] OTHER -> toast
    /\ UNCHANGED <<formData, needsReauth, reauthSent, closure, exceptDprVars>>

\* "Send again" / "Send Code": handleSendReauth up to the await of
\* authService.reauthenticate; both buttons are rendered only when needsReauth
DprClickSendReauth ==
    /\ ~isLoading /\ ~isSuccess /\ needsReauth
    /\ isLoading' = TRUE
    /\ errors' = NoErrors
    /\ lastReauth' = [by |-> "user", ok |-> FALSE]
    /\ dprPc' = "awaitReauthUser"
    /\ UNCHANGED <<formData, isSuccess, needsReauth, reauthSent, closure, submission,
                   toast, exceptDprVars>>

\* authService.reauthenticate resolves: the rest of handleSendReauth and, when
\* handlePasswordUpdate called it, the rest of that handler
DprReauthSettles(outcome) ==
    /\ dprPc \in {"awaitReauthAuto", "awaitReauthUser"}
    /\ LET result == reauthenticateResult(outcome)
           sent == result.error.isNull
       IN  /\ reauthSent' = (reauthSent \/ sent)
           /\ needsReauth' = (needsReauth \/ sent)
           /\ toast' = IF sent
                       THEN ToastSuccess("A verification code has been sent to your email")
                       ELSE IF ProviderThrows(outcome)
                            THEN ToastError("Failed to send verification code")
                       ELSE ToastError("Failed to send verification code: "
                                           \o result.error.message)
           /\ lastReauth' = [lastReauth EXCEPT !.ok = sent]
           /\ submission' = IF dprPc = "awaitReauthAuto"
                            THEN [submission EXCEPT !.phase = "done", !.reauthOk = sent]
                            ELSE submission
    /\ isLoading' = FALSE
    /\ dprPc' = "idle"
    /\ UNCHANGED <<formData, errors, isSuccess, closure, exceptDprVars>>

\* resetForm without its setReauthSent(false)
DprResetFormKeepingSent ==
    /\ isSuccess
    /\ formData' = EmptyForm
    /\ errors' = NoErrors
    /\ isSuccess' = FALSE
    /\ needsReauth' = FALSE
    /\ UNCHANGED <<isLoading, reauthSent, dprPc, closure, submission, lastReauth, toast,
                   exceptDprVars>>

\* "Update Another Password": resetForm
DprResetForm ==
    /\ isSuccess
    /\ formData' = EmptyForm
    /\ errors' = NoErrors
    /\ isSuccess' = FALSE
    /\ needsReauth' = FALSE
    /\ reauthSent' = FALSE
    /\ UNCHANGED <<isLoading, dprPc, closure, submission, lastReauth, toast,
                   exceptDprVars>>

DprNext ==
    \/ \E f \in {"password", "confirmPassword"}, v \in PasswordInputs : DprInputChange(f, v)
    \/ \E v \in NonceInputs : DprInputChange("nonce", v)
    \/ DprSubmit
    \/ DprSubmitEvent
    \/ \E o \in UpdateUserOutcomes(submission.updateData) : DprUpdateSettles(o)
    \/ DprClickSendReauth
    \/ \E o \in ReauthenticateOutcomes : DprReauthSettles(o)
    \/ DprResetForm

(***************************************************************************)
(* RegisterForm (components/auth/RegisterForm.tsx) and AuthService.signUp  *)
(***************************************************************************)

Whitespace == {" ", "\t", "\n", "\r"}

\* RegExp /^[^\s@]+@[^\s@]+\.[^\s@]+$/.test(email): one "@", not first, and
\* after it a "." that is neither next to the "@" nor last; no whitespace
emailRegexTest(email) ==
    \E a \in 1..Len(email), d \in 1..Len(email) :
        /\ 1 < a /\ a + 1 < d /\ d < Len(email)
        /\ SubSeq(email, a, a) = "@" /\ SubSeq(email, d, d) = "."
        /\ \A i \in (1..Len(email)) \ {a} :
               SubSeq(email, i, i) \notin Whitespace \cup {"@"}

\* validateEmail of RegisterForm; ForgotPasswordForm has the same function
validateEmail(email) ==
    IF email = "" THEN "Email is required"
    ELSE IF ~emailRegexTest(email) THEN "Please enter a valid email address"
    ELSE IF Len(email) > 254 THEN "Email is too long"
    ELSE ""

\* String.prototype.trim
Trim(s) ==
    LET kept == {i \in 1..Len(s) : SubSeq(s, i, i) \notin Whitespace}
    IN  IF kept = {} THEN ""
        ELSE SubSeq(s, CHOOSE i \in kept : \A j \in kept : i <= j,
                       CHOOSE i \in kept : \A j \in kept : i >= j)

validateFullName(fullName) ==
    IF Trim(fullName) = "" THEN "Full name is required"
    ELSE IF Len(Trim(fullName)) < 2 THEN "Full name must be at least 2 characters"
    ELSE IF Len(fullName) > 100 THEN "Full name is too long"
    ELSE IF \E i \in 1..Len(fullName) :
                SubSeq(fullName, i, i) \notin
                    LowerChars \cup UpperChars \cup Whitespace \cup {"'", "-"}
         THEN "Full name can only contain letters, spaces, hyphens, and apostrophes"
    ELSE ""

NoRegErrors ==
    [email |-> "", fullName |-> "", password |-> "", confirmPassword |-> "", submit |-> ""]

\* validateForm of RegisterForm without its password test
validateRegisterFormWithoutPassword(data) ==
    [email           |-> validateEmail(data.email),
     fullName        |-> validateFullName(data.fullName),
     password        |-> "",
     confirmPassword |-> validateConfirmPassword(data.password, data.confirmPassword),
     submit          |-> ""]

\* validateForm of RegisterForm: the errors it sets. validatePassword and
\* validateConfirmPassword are, character for character, those of
\* DashboardPasswordReset (the latter with its parameters swapped).
validateRegisterForm(data) ==
    [email           |-> validateEmail(data.email),
     fullName        |-> validateFullName(data.fullName),
     password        |-> validatePassword(data.password),
     confirmPassword |-> validateConfirmPassword(data.password, data.confirmPassword),
     submit          |-> ""]

\* validateField(field, value), with formData as the render saw it
validateField(field, value, data) ==
    CASE field = "email" -> validateEmail(value)
      [] field = "fullName" -> validateFullName(value)
      [] field = "password" -> validatePassword(value)
      [] field = "confirmPassword" -> validateConfirmPassword(data.password, value)

\* supabase.auth.signUp: a user and a session, a user awaiting confirmation,
\* nothing at all, an error, or the client throws
SignUpOutcomes ==
    {[kind |-> "ok", user |-> TRUE, session |-> TRUE, message |-> ""],
     [kind |-> "ok", user |-> TRUE, session |-> FALSE, message |-> ""],
     [kind |-> "ok", user |-> FALSE, session |-> FALSE, message |-> ""],
     [kind |-> "error", user |-> FALSE, session |-> FALSE, message |-> "User already registered"],
     [kind |-> "throw", user |-> FALSE, session |-> FALSE, message |-> FetchMessage]}

\* AuthService.signUp
signUp(outcome) ==
    IF ProviderThrows(outcome)
    THEN [user |-> FALSE, session |-> FALSE, error |-> ErrorOf("Failed to sign up")]
    ELSE IF ProviderError(outcome)
    THEN [user |-> FALSE, session |-> FALSE, error |-> ErrorOf(outcome.message)]
    ELSE [user |-> outcome.user, session |-> outcome.session, error |-> NoError]

EmptyRegisterForm == [email |-> "", password |-> "", confirmPassword |-> "", fullName |-> ""]

RegisterInputs ==
    [email           |-> {"", "ann@example.com", "ann@example"},
     fullName        |-> {"", "Ann Lee", "R2-D2"},
     password        |-> {"", "weak", "Abcdef1!"},
     confirmPassword |-> {"", "weak", "Abcdef1!"}]

MaxPendingValidations == 1

RegInit ==
    /\ regData = EmptyRegisterForm
    /\ regErrors = NoRegErrors
    /\ regLoading = FALSE
    /\ regPc = "idle"
    /\ regTimers = <<>>
    /\ regCall = [made |-> FALSE, formData |-> EmptyRegisterForm,
                  outcome |-> [kind |-> "none", user |-> FALSE, session |-> FALSE,
                               message |-> ""]]
    /\ regSwitch = "none"

\* handleInputChange(field) of RegisterForm: confirmPassword is validated at
\* once, the other fields 300 ms later; the inputs are disabled while isLoading
RegInputChange(field, value) ==
    /\ ~regLoading
    /\ regData' = [regData EXCEPT ![field] = value]
    /\ IF field = "confirmPassword"
       THEN /\ regErrors' = [regErrors EXCEPT ![field] = validateField(field, value, regData)]
            /\ UNCHANGED regTimers
       ELSE /\ Len(regTimers) < MaxPendingValidations
            /\ regTimers' = Append(regTimers, [field |-> field, value |-> value])
            /\ UNCHANGED regErrors
    /\ UNCHANGED <<regLoading, regPc, regCall, regSwitch, exceptRegVars>>

\* The oldest pending setTimeout(() => validateField(field, value), 300) fires
RegValidateTimer ==
    /\ regTimers # <<>>
    /\ regErrors' = [regErrors EXCEPT ![Head(regTimers).field] =
                        validateField(Head(regTimers).field, Head(regTimers).value, regData)]
    /\ regTimers' = Tail(regTimers)
    /\ UNCHANGED <<regData, regLoading, regPc, regCall, regSwitch, exceptRegVars>>

\* handleInputBlur(field)
RegInputBlur(field) ==
    /\ ~regLoading
    /\ regErrors' = [regErrors EXCEPT ![field] = validateField(field, regData[field], regData)]
    /\ UNCHANGED <<regData, regLoading, regPc, regTimers, regCall, regSwitch, exceptRegVars>>

\* handleSubmit of RegisterForm up to the await of authService.signUp; the
\* submit button is disabled only while isLoading
RegSubmit ==
    /\ regPc = "idle" /\ ~regLoading
    /\ LET newErrors == validateRegisterForm(regData)
       IN  IF newErrors # NoRegErrors
           THEN /\ regErrors' = newErrors
                /\ UNCHANGED <<regLoading, regPc, regCall>>
           ELSE /\ regErrors' = NoRegErrors
                /\ regLoading' = TRUE
                /\ regCall' = [regCall EXCEPT !.made = TRUE, !.formData = regData]
                /\ regPc' = "awaitSignUp"
    /\ UNCHANGED <<regData, regTimers, regSwitch, exceptRegVars>>

\* authService.signUp resolves: the rest of handleSubmit
RegSignUpSettles(outcome) ==
    /\ regPc = "awaitSignUp"
    /\ LET result == signUp(outcome)
       IN  /\ regErrors' =
                IF ~result.error.isNull
                THEN [NoRegErrors EXCEPT !.submit = result.error.message]
                ELSE IF result.user
                THEN [NoRegErrors EXCEPT !.submit =
                        "Success! Please check your email to confirm your account before signing in."]
                ELSE regErrors
           /\ regSwitch' = IF result.error.isNull /\ result.user THEN "pending"
                           ELSE regSwitch
    /\ regCall' = [regCall EXCEPT !.outcome = outcome]
    /\ regLoading' = FALSE
    /\ regPc' = "idle"
    /\ UNCHANGED <<regData, regTimers, exceptRegVars>>

\* The setTimeout(() => onSwitchToLogin?.(), 3000) fires
RegSwitchTimer ==
    /\ regSwitch = "pending"
    /\ regSwitch' = "fired"
    /\ UNCHANGED <<regData, regErrors, regLoading, regPc, regTimers, regCall, exceptRegVars>>

\* Passwords for validatePassword: every combination of the four character
\* classes, bare and filled up with "~" (in none of the classes) to just below
\* and at the two length limits and just above the upper one; and "weak"
RECURSIVE Tildes(_)
Tildes(n) ==
    IF n <= 0 THEN "" ELSE IF n = 1 THEN "~"
    ELSE Tildes(n \div 2) \o Tildes(n - n \div 2)

PasswordCases ==
    {"weak"} \cup
    {(IF "lower" \in classes THEN "ab" ELSE "") \o (IF "upper" \in classes THEN "CD" ELSE "")
        \o (IF "digit" \in classes THEN "12" ELSE "")
        \o (IF "special" \in classes THEN "!?" ELSE "")
        \o Tildes(n - 2 * Cardinality(classes)) :
            classes \in SUBSET {"lower", "upper", "digit", "special"},
            n \in {0, MinPasswordLength - 1, MinPasswordLength,
                   MaxPasswordLength, MaxPasswordLength + 1}}

\* The form with address and name typed and validated, the password typed
\* (its validation timer pending) and repeated in the confirmation field
RegTypedInit ==
    /\ \E password \in PasswordCases :
          /\ regData = [email |-> "ann@example.com", fullName |-> "Ann Lee",
                        password |-> password, confirmPassword |-> password]
          /\ regTimers = IF password = "" THEN <<>>
                         ELSE <<[field |-> "password", value |-> password]>>
    /\ regErrors = NoRegErrors
    /\ regLoading = FALSE
    /\ regPc = "idle"
    /\ regCall = [made |-> FALSE, formData |-> EmptyRegisterForm,
                  outcome |-> [kind |-> "none", user |-> FALSE, session |-> FALSE,
                               message |-> ""]]
    /\ regSwitch = "none"

\* The typed form validated and submitted, nothing typed any more
RegTypedNext ==
    \/ RegValidateTimer
    \/ RegSubmit
    \/ \E o \in SignUpOutcomes : RegSignUpSettles(o)
    \/ RegSwitchTimer

RegNext ==
    \/ \E f \in DOMAIN RegisterInputs : \E v \in RegisterInputs[f] : RegInputChange(f, v)
    \/ RegValidateTimer
    \/ \E f \in DOMAIN RegisterInputs : RegInputBlur(f)
    \/ RegSubmit
    \/ \E o \in SignUpOutcomes : RegSignUpSettles(o)
    \/ RegSwitchTimer

(***************************************************************************)
(* ResetPasswordForm (components/auth/ResetPasswordForm.tsx) and           *)
(* AuthService.verifyPasswordResetToken                                    *)
(***************************************************************************)

\* supabase.auth.getSession: a session, no session, an error, or it throws
GetSessionOutcomes ==
    {[kind |-> "ok", session |-> TRUE, message |-> ""],
     [kind |-> "ok", session |-> FALSE, message |-> ""],
     [kind |-> "error", session |-> FALSE, message |-> "Invalid Refresh Token: Refresh Token Not Found"],
     [kind |-> "throw", session |-> FALSE, message |-> FetchMessage]}

\* A session reported as valid whatever getSession said
verifyPasswordResetTokenAlwaysValid(outcome) == [valid |-> TRUE, error |-> NoError]

\* AuthService.verifyPasswordResetToken (a session always carries its user)
verifyPasswordResetToken(outcome) ==
    IF ProviderThrows(outcome)
    THEN [valid |-> FALSE, error |-> ErrorOf("Failed to verify reset token")]
    ELSE IF ProviderError(outcome)
    THEN [valid |-> FALSE, error |-> ErrorOf(outcome.message)]
    ELSE IF outcome.session THEN [valid |-> TRUE, error |-> NoError]
    ELSE [valid |-> FALSE, error |-> ErrorOf("Invalid or expired reset token")]

NoRpfErrors == [password |-> "", confirmPassword |-> "", submit |-> ""]

\* validateForm of ResetPasswordForm without its confirmation test
validateResetFormWithoutConfirm(data) ==
    [password        |-> validatePassword(data.password),
     confirmPassword |-> "",
     submit          |-> ""]

\* validateForm of ResetPasswordForm; its validatePassword and
\* validateConfirmPassword are those of DashboardPasswordReset word for word
validateResetForm(data) ==
    [password        |-> validatePassword(data.password),
     confirmPassword |-> validateConfirmPassword(data.password, data.confirmPassword),
     submit          |-> ""]

RpfInit ==
    /\ rpfData = [password |-> "", confirmPassword |-> ""]
    /\ rpfErrors = NoRpfErrors
    /\ rpfLoading = FALSE
    /\ isTokenValid = "null"
    /\ rpfSuccess = FALSE
    /\ rpfPc = "verify"
    /\ rpfCall = [made |-> FALSE, formData |-> [password |-> "", confirmPassword |-> ""],
                  outcome |-> NoUpdateOutcome]
    /\ rpfVerify = [settled |-> FALSE, valid |-> FALSE]

\* verifyToken of the mount effect, after its await
RpfVerifySettles(outcome) ==
    /\ rpfPc = "verify"
    /\ rpfVerify' = [settled |-> TRUE, valid |-> verifyPasswordResetToken(outcome).valid]
    /\ isTokenValid' = IF rpfVerify'.valid THEN "true" ELSE "false"
    /\ rpfPc' = "idle"
    /\ UNCHANGED <<rpfData, rpfErrors, rpfLoading, rpfSuccess, rpfCall, exceptRpfVars>>

\* The render gates without the one for an invalid token
RpfViewWithoutInvalidGate ==
    IF isTokenValid = "null" THEN "verifying"
    ELSE IF rpfSuccess THEN "success"
    ELSE "form"

\* What ResetPasswordForm renders
RpfView ==
    IF isTokenValid = "null" THEN "verifying"
    ELSE IF isTokenValid = "false" THEN "invalid-link"
    ELSE IF rpfSuccess THEN "success"
    ELSE "form"

\* The form is on the screen
RpfFormRendered == RpfView = "form"

\* handleInputChange(field) of ResetPasswordForm
RpfInputChange(field, value) ==
    /\ RpfFormRendered /\ ~rpfLoading
    /\ rpfData' = [rpfData EXCEPT ![field] = value]
    /\ rpfErrors' = [rpfErrors EXCEPT ![field] = ""]
    /\ UNCHANGED <<rpfLoading, isTokenValid, rpfSuccess, rpfPc, rpfCall, rpfVerify,
                   exceptRpfVars>>

\* handleSubmit of ResetPasswordForm up to the await of authService.updatePassword,
\* from the button (disabled while isLoading or a field is empty) or from a
\* submit event that does not come from it
RpfSubmit ==
    /\ rpfPc = "idle" /\ RpfFormRendered /\ ~rpfLoading
    /\ LET newErrors == validateResetForm(rpfData)
       IN  IF newErrors # NoRpfErrors
           THEN /\ rpfErrors' = newErrors
                /\ UNCHANGED <<rpfLoading, rpfPc, rpfCall>>
           ELSE /\ rpfErrors' = NoRpfErrors
                /\ rpfLoading' = TRUE
                /\ rpfCall' = [made |-> TRUE, formData |-> rpfData, outcome |-> NoUpdateOutcome]
                /\ rpfPc' = "awaitUpdate"
    /\ UNCHANGED <<rpfData, isTokenValid, rpfSuccess, rpfVerify, exceptRpfVars>>

\* authService.updatePassword resolves: the rest of handleSubmit (the toasts
\* repeat what errors.submit and isSuccess say)
RpfUpdateSettles(outcome) ==
    /\ rpfPc = "awaitUpdate"
    /\ LET result == updatePasswordResult(outcome)
       IN  /\ rpfErrors' =
                IF ~result.error.isNull
                THEN [NoRpfErrors EXCEPT !.submit = result.error.message]
                ELSE IF result.user THEN rpfErrors
                ELSE [NoRpfErrors EXCEPT !.submit =
                        "Password update status unclear - please try logging in"]
           /\ rpfSuccess' = (result.error.isNull /\ result.user)
    /\ rpfCall' = [rpfCall EXCEPT !.outcome = outcome]
    /\ rpfLoading' = FALSE
    /\ rpfPc' = "idle"
    /\ UNCHANGED <<rpfData, isTokenValid, rpfVerify, exceptRpfVars>>

RpfNext ==
    \/ \E o \in GetSessionOutcomes : RpfVerifySettles(o)
    \/ \E f \in {"password", "confirmPassword"}, v \in PasswordInputs : RpfInputChange(f, v)
    \/ RpfSubmit
    \/ \E o \in UpdateUserOutcomes(UpdateData(rpfCall.formData.password, Undefined)) :
           RpfUpdateSettles(o)

(***************************************************************************)
(* ForgotPasswordForm (components/auth/ForgotPasswordForm.tsx) and         *)
(* NewForgotPasswordForm (components/auth/NewForgotPasswordForm.tsx)       *)
(***************************************************************************)

ForgotForms == {"ForgotPasswordForm", "NewForgotPasswordForm"}

\* What handleSubmit's validation leaves in `error`: validateEmail in
\* ForgotPasswordForm; the two tests of lines 29-37 in NewForgotPasswordForm
ForgotValidation(form, email) ==
    IF form = "ForgotPasswordForm" THEN validateEmail(email)
    ELSE IF email = "" THEN "Email is required"
    ELSE IF ~emailRegexTest(email) THEN "Please enter a valid email address"
    ELSE ""

\* A form that takes every resolution for a success
ForgotResolutionAlwaysSent(form, outcome) == [isSuccess |-> TRUE, error |-> ""]

\* What the resolved call leaves in isSuccess and error
ForgotResolution(form, outcome) ==
    IF form = "ForgotPasswordForm"
    THEN LET resetError == sendPasswordResetEmail(outcome).error
         IN  IF ~resetError.isNull THEN [isSuccess |-> FALSE, error |-> resetError.message]
             ELSE [isSuccess |-> TRUE, error |-> ""]
    ELSE LET result == sendResetEmail(outcome)
         IN  IF result.error.isNull THEN [isSuccess |-> TRUE, error |-> ""]
             ELSE [isSuccess |-> FALSE,
                   error |-> IF result.error.message # "" THEN result.error.message
                             ELSE "Failed to send reset email"]

ForgotEmailInputs == {"", "ann@example.com", "bob@example.com", "ann@example"}

FpfInit ==
    /\ fpfForm = "none"
    /\ fpfEmail = ""
    /\ fpfError = ""
    /\ fpfLoading = FALSE
    /\ fpfSuccess = FALSE
    /\ fpfPc = "idle"
    /\ fpfCall = [made |-> FALSE, email |-> "", outcome |-> NoOutcome]

\* One of the two forms is mounted
FpfMount(form) ==
    /\ fpfForm = "none"
    /\ fpfForm' = form
    /\ UNCHANGED <<fpfEmail, fpfError, fpfLoading, fpfSuccess, fpfPc, fpfCall, exceptFpfVars>>

\* handleEmailChange / the input's onChange
FpfEmailChange(value) ==
    /\ fpfForm # "none" /\ ~fpfSuccess /\ ~fpfLoading
    /\ fpfEmail' = value
    /\ fpfError' = ""
    /\ UNCHANGED <<fpfForm, fpfLoading, fpfSuccess, fpfPc, fpfCall, exceptFpfVars>>

\* handleSubmit up to the await of the send-reset-email call, from the button
\* (disabled while isLoading or the address is empty) or from a submit event
\* that does not come from it
FpfSubmit ==
    /\ fpfForm # "none" /\ fpfPc = "idle" /\ ~fpfSuccess /\ ~fpfLoading
    /\ LET emailError == ForgotValidation(fpfForm, fpfEmail)
       IN  IF emailError # ""
           THEN /\ fpfError' = emailError
                /\ UNCHANGED <<fpfLoading, fpfPc, fpfCall>>
           ELSE /\ fpfError' = ""
                /\ fpfLoading' = TRUE
                /\ fpfCall' = [made |-> TRUE, email |-> fpfEmail, outcome |-> NoOutcome]
                /\ fpfPc' = "await"
    /\ UNCHANGED <<fpfForm, fpfEmail, fpfSuccess, exceptFpfVars>>

\* The call resolves: the rest of handleSubmit
FpfSettles(outcome) ==
    /\ fpfPc = "await"
    /\ fpfSuccess' = ForgotResolution(fpfForm, outcome).isSuccess
    /\ fpfError' = ForgotResolution(fpfForm, outcome).error
    /\ fpfCall' = [fpfCall EXCEPT !.outcome = outcome]
    /\ fpfLoading' = FALSE
    /\ fpfPc' = "idle"
    /\ UNCHANGED <<fpfForm, fpfEmail, exceptFpfVars>>

\* "Send another email"
FpfSendAnother ==
    /\ fpfSuccess
    /\ fpfSuccess' = FALSE
    /\ fpfEmail' = ""
    /\ UNCHANGED <<fpfForm, fpfError, fpfLoading, fpfPc, fpfCall, exceptFpfVars>>

FpfActions ==
    \/ \E f \in ForgotForms : FpfMount(f)
    \/ \E v \in ForgotEmailInputs : FpfEmailChange(v)
    \/ FpfSubmit
    \/ \E o \in ResetEmailOutcomes(fpfCall.email) : FpfSettles(o)
    \/ FpfSendAnother

\* The form's actions, and the provider gaining accounts meanwhile
FpfNext ==
    \/ FpfActions
    \/ \E e \in Emails : MailAccountCreated(e)

(***************************************************************************)
(* The forms taken together: one page, and so one form, at a time          *)
(***************************************************************************)

Pages == {"register", "reset-password", "forgot-password", "dashboard"}

\* The user moves to another page while no request of the form on the screen
\* is in flight: that form is unmounted and the form of the new page mounted
\* with its initial state
Navigate(to) ==
    /\ to # page
    /\ dprPc = "idle" /\ regPc = "idle" /\ rpfPc \in {"idle", "verify"} /\ fpfPc = "idle"
    /\ page' = to
    \* DashboardPasswordReset as DprInit has it
    /\ formData' = EmptyForm /\ errors' = NoErrors /\ isLoading' = FALSE
    /\ isSuccess' = FALSE /\ needsReauth' = FALSE /\ reauthSent' = FALSE
    /\ dprPc' = "idle" /\ closure' = [formData |-> EmptyForm, needsReauth |-> FALSE]
    /\ submission' = NoSubmission /\ lastReauth' = [by |-> "none", ok |-> FALSE]
    /\ toast' = NoToast
    \* RegisterForm as RegInit has it
    /\ regData' = EmptyRegisterForm /\ regErrors' = NoRegErrors /\ regLoading' = FALSE
    /\ regPc' = "idle" /\ regTimers' = <<>> /\ regSwitch' = "none"
    /\ regCall' = [made |-> FALSE, formData |-> EmptyRegisterForm,
                   outcome |-> [kind |-> "none", user |-> FALSE, session |-> FALSE,
                                message |-> ""]]
    \* ResetPasswordForm as RpfInit has it
    /\ rpfData' = [password |-> "", confirmPassword |-> ""] /\ rpfErrors' = NoRpfErrors
    /\ rpfLoading' = FALSE /\ isTokenValid' = "null" /\ rpfSuccess' = FALSE
    /\ rpfPc' = "verify"
    /\ rpfCall' = [made |-> FALSE, formData |-> [password |-> "", confirmPassword |-> ""],
                   outcome |-> NoUpdateOutcome]
    /\ rpfVerify' = [settled |-> FALSE, valid |-> FALSE]
    \* the forgot-password forms as FpfInit has them
    /\ fpfForm' = "none" /\ fpfEmail' = "" /\ fpfError' = "" /\ fpfLoading' = FALSE
    /\ fpfSuccess' = FALSE /\ fpfPc' = "idle"
    /\ fpfCall' = [made |-> FALSE, email |-> "", outcome |-> NoOutcome]
    /\ UNCHANGED <<mwVars, mailVars, tokVars, asVars, hookVars, navVars>>

FormsNext ==
    \/ \E to \in Pages : Navigate(to)
    \/ page = "dashboard" /\ DprNext
    \/ page = "register" /\ RegNext
    \/ page = "reset-password" /\ RpfNext
    \/ page = "forgot-password" /\ FpfActions

(***************************************************************************)
(* PasswordResetService.extractTokensFromUrl (lib/passwordReset.ts)        *)
(***************************************************************************)

\* The pieces of s between the occurrences of the character sep
RECURSIVE Split(_, _)
Split(s, sep) ==
    LET at == {i \in 1..Len(s) : SubSeq(s, i, i) = sep}
    IN  IF at = {} THEN <<s>>
        ELSE LET first == CHOOSE i \in at : \A j \in at : i <= j
             IN  <<SubSeq(s, 1, first - 1)>> \o Split(SubSeq(s, first + 1, Len(s)), sep)

PercentCodes == [x2B |-> "+", x20 |-> " ", x2E |-> "."]

\* The decoding URLSearchParams applies to names and values: "+" is a space,
\* %XX the character of that code
RECURSIVE FormDecode(_)
FormDecode(s) ==
    IF s = "" THEN ""
    ELSE IF SubSeq(s, 1, 1) = "+" THEN " " \o FormDecode(SubSeq(s, 2, Len(s)))
    ELSE IF SubSeq(s, 1, 1) = "%" /\ Len(s) >= 3
            /\ ("x" \o SubSeq(s, 2, 3)) \in DOMAIN PercentCodes
         THEN PercentCodes["x" \o SubSeq(s, 2, 3)] \o FormDecode(SubSeq(s, 4, Len(s)))
    ELSE SubSeq(s, 1, 1) \o FormDecode(SubSeq(s, 2, Len(s)))

\* new URLSearchParams(init): a leading "?" dropped, then the non-empty pieces
\* between "&", each split at its first "=", in order
URLSearchParams(init) ==
    LET query  == IF StartsWith(init, "?") THEN SubSeq(init, 2, Len(init)) ELSE init
        pieces == SelectSeq(Split(query, "&"), LAMBDA piece : piece # "")
    IN  [k \in 1..Len(pieces) |->
            LET piece == pieces[k]
                eq    == {i \in 1..Len(piece) : SubSeq(piece, i, i) = "="}
                cut   == IF eq = {} THEN Len(piece) + 1
                         ELSE CHOOSE i \in eq : \A j \in eq : i <= j
            IN  [name  |-> FormDecode(SubSeq(piece, 1, cut - 1)),
                 value |-> FormDecode(SubSeq(piece, cut + 1, Len(piece)))]]

\* URLSearchParams.get(name): the value of the first pair of that name, or null
URLSearchParamsGet(params, name) ==
    LET at == {k \in 1..Len(params) : params[k].name = name}
    IN  IF at = {} THEN Null ELSE params[CHOOSE k \in at : \A j \in at : k <= j].value

\* a || b || undefined over the results of get
FirstTruthy(a, b) ==
    IF a # Null /\ a # "" THEN a ELSE IF b # Null /\ b # "" THEN b ELSE Undefined

\* The query string left unread
extractTokensFromHashOnly(loc) ==
    IF ~loc.window THEN [accessToken |-> Undefined, refreshToken |-> Undefined]
    ELSE LET hashParams == URLSearchParams(SubSeq(loc.hash, 2, Len(loc.hash)))
         IN  [accessToken  |-> FirstTruthy(URLSearchParamsGet(hashParams, "access_token"), Null),
              refreshToken |-> FirstTruthy(URLSearchParamsGet(hashParams, "refresh_token"), Null)]

\* extractTokensFromUrl; without a window the reference throws and the catch
\* returns {}
extractTokensFromUrl(loc) ==
    IF ~loc.window THEN [accessToken |-> Undefined, refreshToken |-> Undefined]
    ELSE LET hashParams   == URLSearchParams(SubSeq(loc.hash, 2, Len(loc.hash)))
             searchParams == URLSearchParams(loc.search)
         IN  [accessToken  |-> FirstTruthy(URLSearchParamsGet(hashParams, "access_token"),
                                           URLSearchParamsGet(searchParams, "access_token")),
              refreshToken |-> FirstTruthy(URLSearchParamsGet(hashParams, "refresh_token"),
                                           URLSearchParamsGet(searchParams, "refresh_token"))]

\* Parameter strings of a reset callback: none, a code, an error, the pair in
\* either order and among other parameters, one token alone, a token with an
\* empty value
CallbackParameters ==
    {"",
     "code=4f2c9a",
     "error=access_denied&error_code=otp_expired&error_description=Email+link+is+invalid",
     "access_token=eyJh.eyJz.sig1&refresh_token=r3fr3sh1",
     "access_token=eyJh.eyJz.sig2&expires_in=3600&refresh_token=r3fr3sh2&token_type=bearer&type=recovery",
     "type=recovery&refresh_token=r3fr3sh3&access_token=eyJh%2EeyJz%2Esig3",
     "access_token=eyJh.eyJz.sig4",
     "refresh_token=r3fr3sh5&type=recovery",
     "access_token=&refresh_token=r3fr3sh6"}

\* window.location of the page: search is "" or "?...", hash is "" or "#..."
Locations ==
    {[window |-> TRUE,
      search |-> IF q = "" THEN "" ELSE "?" \o q,
      hash   |-> IF h = "" THEN "" ELSE "#" \o h] : q \in CallbackParameters,
                                                     h \in CallbackParameters}
    \cup {[window |-> FALSE, search |-> "", hash |-> ""]}

NoTokens == [accessToken |-> Undefined, refreshToken |-> Undefined]

\* The calls of updatePassword that may run at the same time
MaxCalls == 2
CallIds  == 1..MaxCalls

\* PasswordResetResult: { success, error?, data? } ("" = no error; data is
\* "none", "user" for { user } or "updated" for { user: { updated: true } })
NoResult == [returned |-> FALSE, success |-> FALSE, error |-> "", data |-> "none"]
Failure(message) == [returned |-> TRUE, success |-> FALSE, error |-> message, data |-> "none"]
Success(data)    == [returned |-> TRUE, success |-> TRUE, error |-> "", data |-> data]

NoCall ==
    [pc |-> "idle", newPassword |-> "", providerCalls |-> <<>>,
     sessionResult |-> NoResult, result |-> NoResult, afterFailedUpdate |-> FALSE]

NewPasswords == {"Abcdef1!"}

\* What the provider may answer to setSession({access_token, refresh_token})
SetSessionOutcomes ==
    {[kind |-> "ok", message |-> ""],
     [kind |-> "error", message |-> "Invalid Refresh Token: Already Used"],
     [kind |-> "throw", message |-> FetchMessage]}

\* What the provider may answer to updateUser({password}): data.user is set or
\* null on success
PrsUpdateUserOutcomes ==
    {[kind |-> "ok", user |-> TRUE, message |-> ""],
     [kind |-> "ok", user |-> FALSE, message |-> ""],
     [kind |-> "error", user |-> FALSE, message |-> SamePasswordMessage],
     [kind |-> "throw", user |-> FALSE, message |-> FetchMessage]}

\* verifyResetSession, its first await: setSession with the pair of the URL
\* when both tokens are there, getSession otherwise
VerifyProviderCall(loc) ==
    LET tokens == extractTokensFromUrl(loc)
    IN  IF tokens.accessToken # Undefined /\ tokens.refreshToken # Undefined
        THEN "setSession" ELSE "getSession"

\* verifyResetSession after setSession settled
verifyAfterSetSession(outcome) ==
    IF ProviderThrows(outcome) THEN Failure("Failed to verify reset link")
    ELSE IF ProviderError(outcome) THEN Failure("Invalid or expired reset link")
    ELSE Success("user")

\* verifyResetSession after getSession settled
verifyAfterGetSession(outcome) ==
    IF ProviderThrows(outcome) THEN Failure("Failed to verify reset link")
    ELSE IF ProviderError(outcome) \/ ~outcome.session
    THEN Failure("Invalid or expired reset link")
    ELSE Success("user")

\* updateUser called whatever verifyResetSession returned
ProceedsToUpdateAlways(sessionResult) == TRUE

\* updatePassword after verifyResetSession returned: goes on to updateUser
ProceedsToUpdate(sessionResult) == sessionResult.success

\* updatePassword after updateUser settled
updatePasswordAfterUpdateUser(outcome) ==
    IF ProviderThrows(outcome) THEN Failure("Failed to update password")
    ELSE IF ProviderError(outcome) THEN Failure(outcome.message)
    ELSE Success(IF outcome.user THEN "user" ELSE "updated")

\* cleanupUrl: history.replaceState(..., window.location.pathname); without a
\* window the reference throws and the catch only warns
cleanupUrl(loc) ==
    IF ~loc.window THEN loc ELSE [loc EXCEPT !.search = "", !.hash = ""]

TokInit ==
    /\ location = [window |-> TRUE, search |-> "", hash |-> ""]
    /\ tokPc = "idle"
    /\ tokResult = NoTokens
    /\ prsCalls = [c \in CallIds |-> NoCall]

\* The page is opened at some URL
TokUrlInit ==
    /\ location \in Locations
    /\ tokPc = "idle"
    /\ tokResult = NoTokens
    /\ prsCalls = [c \in CallIds |-> NoCall]

\* The URLs the reset-password page is opened at when updatePassword is
\* called: without parameters, with a code, with the pair or with one token
\* alone, in the query string or in the fragment
LinkParameters ==
    {"", "code=4f2c9a", "access_token=eyJh.eyJz.sig1&refresh_token=r3fr3sh1",
     "access_token=eyJh.eyJz.sig4"}

LinkLocations ==
    {loc \in Locations :
        /\ loc.search = "" \/ loc.hash = ""
        /\ SubSeq(loc.search, 2, Len(loc.search)) \in LinkParameters
        /\ SubSeq(loc.hash, 2, Len(loc.hash)) \in LinkParameters}

TokLinkInit ==
    /\ location \in LinkLocations
    /\ tokPc = "idle"
    /\ tokResult = NoTokens
    /\ prsCalls = [c \in CallIds |-> NoCall]

\* passwordResetService.extractTokensFromUrl() is called
TokExtract ==
    /\ tokPc = "idle"
    /\ tokResult' = extractTokensFromUrl(location)
    /\ tokPc' = "done"
    /\ UNCHANGED <<location, prsCalls, exceptTokVars>>

TokNext ==
    \/ TokExtract

\* updatePassword(newPassword) is called and awaits verifyResetSession, which
\* awaits its provider call
PrsUpdatePassword(c, newPassword) ==
    /\ prsCalls[c].pc \in {"idle", "done"}
    /\ prsCalls' = [prsCalls EXCEPT ![c] =
            [pc                |-> IF VerifyProviderCall(location) = "setSession"
                                   THEN "awaitSetSession" ELSE "awaitGetSession",
             newPassword       |-> newPassword,
             providerCalls     |-> <<VerifyProviderCall(location)>>,
             sessionResult     |-> NoResult,
             result            |-> NoResult,
             afterFailedUpdate |-> \E d \in CallIds :
                                       /\ prsCalls[d].pc = "done"
                                       /\ prsCalls[d].sessionResult.success
                                       /\ ~prsCalls[d].result.success]]
    /\ UNCHANGED <<location, tokPc, tokResult, exceptTokVars>>

\* updatePassword once verifyResetSession has returned sessionResult: the
\* failure returned as it is, or updateUser called and awaited
AfterVerifyResetSession(call, sessionResult) ==
    IF ProceedsToUpdate(sessionResult)
    THEN [call EXCEPT !.pc = "awaitUpdateUser",
                      !.sessionResult = sessionResult,
                      !.providerCalls = Append(@, "updateUser")]
    ELSE [call EXCEPT !.pc = "done",
                      !.sessionResult = sessionResult,
                      !.result = sessionResult]

\* setSession settles
PrsSetSessionSettles(c, outcome) ==
    /\ prsCalls[c].pc = "awaitSetSession"
    /\ prsCalls' = [prsCalls EXCEPT ![c] =
                        AfterVerifyResetSession(@, verifyAfterSetSession(outcome))]
    /\ UNCHANGED <<location, tokPc, tokResult, exceptTokVars>>

\* getSession settles
PrsGetSessionSettles(c, outcome) ==
    /\ prsCalls[c].pc = "awaitGetSession"
    /\ prsCalls' = [prsCalls EXCEPT ![c] =
                        AfterVerifyResetSession(@, verifyAfterGetSession(outcome))]
    /\ UNCHANGED <<location, tokPc, tokResult, exceptTokVars>>

\* updateUser settles: on success cleanupUrl, then the result
PrsUpdateUserSettles(c, outcome) ==
    /\ prsCalls[c].pc = "awaitUpdateUser"
    /\ LET result == updatePasswordAfterUpdateUser(outcome)
       IN  /\ prsCalls' = [prsCalls EXCEPT ![c] = [@ EXCEPT !.pc = "done", !.result = result]]
           /\ location' = IF result.success THEN cleanupUrl(location) ELSE location
    /\ UNCHANGED <<tokPc, tokResult, exceptTokVars>>

PrsNext ==
    \/ \E c \in CallIds, newPassword \in NewPasswords : PrsUpdatePassword(c, newPassword)
    \/ \E c \in CallIds, outcome \in SetSessionOutcomes : PrsSetSessionSettles(c, outcome)
    \/ \E c \in CallIds, outcome \in GetSessionOutcomes : PrsGetSessionSettles(c, outcome)
    \/ \E c \in CallIds, outcome \in PrsUpdateUserOutcomes : PrsUpdateUserSettles(c, outcome)

(***************************************************************************)
(* AuthService, operation by operation (frontend/src/lib/auth.ts)          *)
(***************************************************************************)

\* AuthService.getSession (user is data.session?.user)
getSession(outcome) ==
    IF ProviderThrows(outcome)
    THEN [user |-> FALSE, session |-> FALSE, error |-> ErrorOf("Failed to get session")]
    ELSE IF ProviderError(outcome)
    THEN [user |-> FALSE, session |-> FALSE, error |-> ErrorOf(outcome.message)]
    ELSE [user |-> outcome.session, session |-> outcome.session, error |-> NoError]

\* AuthService.getUser
getUser(outcome) ==
    IF ProviderThrows(outcome) THEN [user |-> FALSE, error |-> ErrorOf("Failed to get user")]
    ELSE IF ProviderError(outcome) THEN [user |-> FALSE, error |-> ErrorOf(outcome.message)]
    ELSE [user |-> outcome.user, error |-> NoError]

\* AuthService.signInWithPassword
signInWithPassword(outcome) ==
    IF ProviderThrows(outcome)
    THEN [user |-> FALSE, session |-> FALSE, error |-> ErrorOf("Failed to sign in")]
    ELSE IF ProviderError(outcome)
    THEN [user |-> FALSE, session |-> FALSE, error |-> ErrorOf(outcome.message)]
    ELSE [user |-> outcome.user, session |-> outcome.session, error |-> NoError]

\* AuthService.signOut
signOut(outcome) ==
    IF ProviderThrows(outcome) THEN [error |-> ErrorOf("Failed to sign out")]
    ELSE IF ProviderError(outcome) THEN [error |-> ErrorOf(outcome.message)]
    ELSE [error |-> NoError]

\* AuthService.signInWithOAuth(provider)
signInWithOAuth(provider, outcome) ==
    IF ProviderThrows(outcome) THEN [error |-> ErrorOf("Failed to sign in with " \o provider)]
    ELSE IF ProviderError(outcome) THEN [error |-> ErrorOf(outcome.message)]
    ELSE [error |-> NoError]

\* The operations and the arguments that matter to their results
AuthCalls ==
    {[op |-> o, arg |-> ""] :
        o \in {"getSession", "getUser", "signInWithPassword", "signUp", "signOut",
               "sendPasswordResetEmail", "updatePassword", "verifyPasswordResetToken",
               "reauthenticate"}}
    \cup {[op |-> "signInWithOAuth", arg |-> provider] :
              provider \in {"google", "github", "facebook"}}

\* What the provider call inside an operation can do: resolve with data (the
\* session it held when called, for the reads), resolve with an error, throw
\* an Error, throw something else
ProviderOutcomes(op, hasSession) ==
    LET Resolved(u, se) ==
            [kind |-> "ok", isError |-> FALSE, message |-> "", user |-> u, session |-> se]
        Failed(k, isErr, m) ==
            [kind |-> k, isError |-> isErr, message |-> m, user |-> FALSE, session |-> FALSE]
    IN  (CASE op \in {"getSession", "getUser", "verifyPasswordResetToken"} ->
                 {Resolved(hasSession, hasSession)}
           [] op = "signInWithPassword" -> {Resolved(TRUE, TRUE)}
           [] op = "signUp" ->
                 {Resolved(TRUE, TRUE), Resolved(TRUE, FALSE), Resolved(FALSE, FALSE)}
           [] OTHER -> {Resolved(FALSE, FALSE)})
        \cup {Failed("error", TRUE, "Invalid login credentials"),
              Failed("error", TRUE, RateLimitMessage),
              Failed("throw", TRUE, FetchMessage),
              Failed("throw", TRUE, "Cannot read properties of undefined (reading 'auth')"),
              Failed("throw", FALSE, "")}

\* The operations without their try/catch: a throw of the client rejects the
\* operation's promise
AuthServiceCallUncaught(op, arg, outcome) ==
    IF ProviderThrows(outcome)
    THEN [settled |-> "rejected", error |-> NoError, valid |-> FALSE]
    ELSE [settled |-> "fulfilled",
          error   |-> IF ProviderError(outcome) THEN ErrorOf(outcome.message) ELSE NoError,
          valid   |-> op = "verifyPasswordResetToken" /\ outcome.session]

\* How the promise of an operation settles. Every operation has its whole body
\* inside try/catch and returns from the catch, so none rejects.
AuthServiceCall(op, arg, outcome) ==
    [settled |-> "fulfilled",
     error   |->
        CASE op = "getSession" -> getSession(outcome).error
          [] op = "getUser" -> getUser(outcome).error
          [] op = "signInWithPassword" -> signInWithPassword(outcome).error
          [] op = "signUp" -> signUp(outcome).error
          [] op = "signOut" -> signOut(outcome).error
          [] op = "sendPasswordResetEmail" -> sendPasswordResetEmail(outcome).error
          [] op = "updatePassword" -> updatePasswordResult(outcome).error
          [] op = "verifyPasswordResetToken" -> verifyPasswordResetToken(outcome).error
          [] op = "signInWithOAuth" -> signInWithOAuth(arg, outcome).error
          [] op = "reauthenticate" -> reauthenticateResult(outcome).error,
     valid   |-> op = "verifyPasswordResetToken" /\ verifyPasswordResetToken(outcome).valid]

NoAuthOutcome ==
    [kind |-> "none", isError |-> FALSE, message |-> "", user |-> FALSE, session |-> FALSE]

AsInit ==
    /\ asSession = FALSE
    /\ asPc = "idle"
    /\ asCall = [op |-> "", arg |-> "", session |-> FALSE]
    /\ asOutcome = NoAuthOutcome
    /\ asResult = [settled |-> "none", error |-> NoError, valid |-> FALSE]

\* A caller invokes an operation; the operation awaits its provider call
AsCall(call) ==
    /\ asPc \in {"idle", "done"}
    /\ asCall' = [op |-> call.op, arg |-> call.arg, session |-> asSession]
    /\ asOutcome' = NoAuthOutcome
    /\ asResult' = [settled |-> "none", error |-> NoError, valid |-> FALSE]
    /\ asPc' = "await"
    /\ UNCHANGED <<asSession, exceptAsVars>>

\* The provider call settles and the operation returns; a sign-in leaves a
\* session at the client, a sign-out none
AsSettles(outcome) ==
    /\ asPc = "await"
    /\ asOutcome' = outcome
    /\ asResult' = AuthServiceCall(asCall.op, asCall.arg, outcome)
    /\ asSession' =
          IF ProviderOk(outcome) /\ asCall.op \in {"signInWithPassword", "signUp"}
          THEN (asSession \/ outcome.session)
          ELSE IF ProviderOk(outcome) /\ asCall.op = "signOut" THEN FALSE
          ELSE asSession
    /\ asPc' = "done"
    /\ UNCHANGED <<asCall, exceptAsVars>>

\* Between calls the session comes (the reset link's callback) or goes (expiry)
AsSessionChanges ==
    /\ asPc # "await"
    /\ asSession' = ~asSession
    /\ UNCHANGED <<asPc, asCall, asOutcome, asResult, exceptAsVars>>

AsNext ==
    \/ \E call \in AuthCalls : AsCall(call)
    \/ \E o \in ProviderOutcomes(asCall.op, asCall.session) : AsSettles(o)
    \/ AsSessionChanges

(***************************************************************************)
(* useSupabaseSession (the hook keeping `session` in step with the         *)
(* provider)                                                               *)
(***************************************************************************)

\* The components that use the hook; each is mounted once and torn down once
MaxComponents == 2
Components == 1..MaxComponents

\* Session | null
Sessions == {Null, "session-1", "session-2"}

NoSubscription == 0

HookInit ==
    /\ providerSession = Null
    /\ listeners = {}
    /\ hookStatus = [c \in Components |-> "new"]
    /\ hookSession = [c \in Components |-> Null]
    /\ subscription = [c \in Components |-> NoSubscription]
    /\ unsubscribeCalls = [c \in Components |-> 0]
    /\ pendingGetSession = {}
    /\ lateSetSession = [c \in Components |-> FALSE]

\* setSession of component c, as seen from the hook: on a mounted component the
\* state changes; on a component torn down React has no state left to change,
\* and the call is recorded
setSession(c, value) ==
    IF hookStatus[c] = "mounted"
      THEN /\ hookSession' = [hookSession EXCEPT ![c] = value]
           /\ UNCHANGED lateSetSession
      ELSE /\ lateSetSession' = [lateSetSession EXCEPT ![c] = TRUE]
           /\ UNCHANGED hookSession

\* The effect of the mount: getSession() is called and its promise left
\* pending, then the listener is registered and its subscription kept
HookMount(c) ==
    /\ hookStatus[c] = "new"
    /\ hookStatus' = [hookStatus EXCEPT ![c] = "mounted"]
    /\ pendingGetSession' = pendingGetSession \cup
                               {[component |-> c, seen |-> {providerSession}]}
    /\ listeners' = listeners \cup {c}
    /\ subscription' = [subscription EXCEPT ![c] = c]
    /\ UNCHANGED <<providerSession, hookSession, unsubscribeCalls, lateSetSession>>
    /\ UNCHANGED exceptHookVars

\* The getSession() promise of a component resolves, with a session the
\* provider held at some moment since the call, and its continuation runs
HookGetSessionResolves(c, value) ==
    /\ \E promise \in pendingGetSession :
          /\ promise.component = c
          /\ value \in promise.seen
          /\ pendingGetSession' = pendingGetSession \ {promise}
    /\ setSession(c, value)
    /\ UNCHANGED <<providerSession, listeners, hookStatus, subscription, unsubscribeCalls>>
    /\ UNCHANGED exceptHookVars

\* The provider's session changes (sign-in, sign-out, token refresh): every
\* registered callback is called with the new session
HookAuthStateChange(newSession) ==
    /\ newSession # providerSession
    /\ providerSession' = newSession
    /\ hookSession' = [c \in Components |->
                          IF c \in listeners /\ hookStatus[c] = "mounted"
                            THEN newSession ELSE hookSession[c]]
    /\ lateSetSession' = [c \in Components |->
                             lateSetSession[c] \/ (c \in listeners /\ hookStatus[c] # "mounted")]
    /\ pendingGetSession' = {[p EXCEPT !.seen = @ \cup {newSession}] : p \in pendingGetSession}
    /\ UNCHANGED <<listeners, hookStatus, subscription, unsubscribeCalls>>
    /\ UNCHANGED exceptHookVars

\* The cleanup of the effect: subscription?.unsubscribe()
HookUnmount(c) ==
    /\ hookStatus[c] = "mounted"
    /\ hookStatus' = [hookStatus EXCEPT ![c] = "gone"]
    /\ IF subscription[c] # NoSubscription
         THEN /\ listeners' = listeners \ {subscription[c]}
              /\ unsubscribeCalls' = [unsubscribeCalls EXCEPT ![subscription[c]] = @ + 1]
         ELSE UNCHANGED <<listeners, unsubscribeCalls>>
    /\ UNCHANGED <<providerSession, hookSession, subscription, pendingGetSession,
                   lateSetSession>>
    /\ UNCHANGED exceptHookVars

HookNext ==
    \/ \E c \in Components : HookMount(c)
    \/ \E c \in Components : \E s \in Sessions : HookGetSessionResolves(c, s)
    \/ \E s \in Sessions : HookAuthStateChange(s)
    \/ \E c \in Components : HookUnmount(c)

(***************************************************************************)
(* The auth context (AuthProvider) and the pages that read it              *)
(***************************************************************************)

Routes == {"/dashboard", "/profile", "/auth/login", "/auth/register"}

NoPush == [by |-> "none", from |-> "", to |-> "", user |-> FALSE, loading |-> FALSE]

\* A guard without the test of loading
GuardedPageIgnoringLoading(user, loading) ==
    [view |-> IF user THEN "content" ELSE "null",
     push |-> IF ~user THEN "/auth/login" ELSE ""]

\* What DashboardPage renders and whether its render calls router.push
DashboardPage(user, loading) ==
    IF loading THEN [view |-> "spinner", push |-> ""]
    ELSE IF ~user THEN [view |-> "null", push |-> "/auth/login"]
    ELSE [view |-> "content", push |-> ""]

\* What ProfilePage renders and whether its render calls router.push
ProfilePage(user, loading) ==
    IF loading THEN [view |-> "spinner", push |-> ""]
    ELSE IF ~user THEN [view |-> "null", push |-> "/auth/login"]
    ELSE [view |-> "content", push |-> ""]

\* What LoginPage renders and whether its effect calls router.push
LoginPage(user, loading) ==
    [view |-> IF loading THEN "spinner" ELSE IF user THEN "null" ELSE "form",
     push |-> IF ~loading /\ user THEN "/dashboard" ELSE ""]

\* What RegisterPage renders and whether its effect calls router.push
RegisterPage(user, loading) ==
    [view |-> IF loading THEN "spinner" ELSE IF user THEN "null" ELSE "form",
     push |-> IF ~loading /\ user THEN "/dashboard" ELSE ""]

PageAt(r, user, loading) ==
    CASE r = "/dashboard"     -> DashboardPage(user, loading)
      [] r = "/profile"       -> ProfilePage(user, loading)
      [] r = "/auth/login"    -> LoginPage(user, loading)
      [] r = "/auth/register" -> RegisterPage(user, loading)

NavInit ==
    /\ navSession = FALSE
    /\ ctxUser = FALSE
    /\ ctxLoading = TRUE
    /\ ctxPc = "session"
    /\ route = "/dashboard"
    /\ loginPc = "idle"
    /\ lastPush = NoPush

\* The AuthProvider holds the user of a session and, while there is one, keeps
\* loading true until the profile row has been fetched
CtxHold(session) ==
    /\ ctxUser' = session
    /\ ctxLoading' = session
    /\ ctxPc' = IF session THEN "profile" ELSE "idle"

\* On mount: the current session is fetched once
CtxSessionResolves ==
    /\ ctxPc = "session"
    /\ CtxHold(navSession)
    /\ UNCHANGED <<navSession, route, loginPc, lastPush>>
    /\ UNCHANGED exceptNavVars

\* A session-change event from the provider (sign-in or sign-out elsewhere,
\* token refresh)
CtxAuthEvent(session) ==
    /\ ctxPc # "session"
    /\ navSession' = session
    /\ CtxHold(session)
    /\ UNCHANGED <<route, loginPc, lastPush>>
    /\ UNCHANGED exceptNavVars

\* The profile fetch resolves
CtxProfileSettles ==
    /\ ctxPc = "profile"
    /\ ctxPc' = "idle"
    /\ ctxLoading' = FALSE
    /\ UNCHANGED <<navSession, ctxUser, route, loginPc, lastPush>>
    /\ UNCHANGED exceptNavVars

\* The user opens another page
NavVisit(r) ==
    /\ r # route
    /\ route' = r
    /\ UNCHANGED <<navSession, ctxUser, ctxLoading, ctxPc, loginPc, lastPush>>
    /\ UNCHANGED exceptNavVars

\* The page on the screen renders with the context as it is, and its render
\* (dashboard, profile) or its effect (login, register) calls router.push
PageRender ==
    /\ PageAt(route, ctxUser, ctxLoading).push # ""
    /\ route' = PageAt(route, ctxUser, ctxLoading).push
    /\ lastPush' = [by |-> "page", from |-> route, to |-> route',
                    user |-> ctxUser, loading |-> ctxLoading]
    /\ UNCHANGED <<navSession, ctxUser, ctxLoading, ctxPc, loginPc>>
    /\ UNCHANGED exceptNavVars

\* LoginForm.handleSubmit up to its await, on the form the login page shows
LoginSubmit ==
    /\ route = "/auth/login"
    /\ LoginPage(ctxUser, ctxLoading).view = "form"
    /\ loginPc = "idle"
    /\ loginPc' = "await"
    /\ UNCHANGED <<navSession, ctxUser, ctxLoading, ctxPc, route, lastPush>>
    /\ UNCHANGED exceptNavVars

\* The sign-in succeeds at the provider, which tells the AuthProvider before
\* the call returns
LoginSignInSucceeds ==
    /\ loginPc = "await"
    /\ ctxPc # "session"
    /\ loginPc' = "signed"
    /\ navSession' = TRUE
    /\ CtxHold(TRUE)
    /\ UNCHANGED <<route, lastPush>>
    /\ UNCHANGED exceptNavVars

\* The sign-in fails: the form shows the error
LoginSignInFails ==
    /\ loginPc = "await"
    /\ loginPc' = "idle"
    /\ UNCHANGED <<navSession, ctxUser, ctxLoading, ctxPc, route, lastPush>>
    /\ UNCHANGED exceptNavVars

\* handleSubmit reads the result: user && session, onSuccess?.() runs the
\* login page's () => router.push('/dashboard')
LoginOnSuccess ==
    /\ loginPc = "signed"
    /\ loginPc' = "idle"
    /\ route' = "/dashboard"
    /\ lastPush' = [by |-> "onSuccess", from |-> route, to |-> "/dashboard",
                    user |-> ctxUser, loading |-> ctxLoading]
    /\ UNCHANGED <<navSession, ctxUser, ctxLoading, ctxPc>>
    /\ UNCHANGED exceptNavVars

NavNext ==
    \/ CtxSessionResolves
    \/ \E session \in BOOLEAN : CtxAuthEvent(session)
    \/ CtxProfileSettles
    \/ \E r \in Routes : NavVisit(r)
    \/ PageRender
    \/ LoginSubmit
    \/ LoginSignInSucceeds
    \/ LoginSignInFails
    \/ LoginOnSuccess

(***************************************************************************)
(* Specifications                                                          *)
(***************************************************************************)

Init ==
    MwInit /\ MailInit /\ DprInit /\ RegInit /\ RpfInit /\ FpfInit /\ page = "none"
           /\ TokInit /\ AsInit /\ HookInit /\ NavInit

\* The middleware serving requests
SpecMiddleware == Init /\ [][MwNext]_vars

\* The password reset e-mail operations
SpecResetEmail == Init /\ [][MailNext]_vars

\* The dashboard password form
SpecDashboardReset == Init /\ [][DprNext]_vars

\* The registration form
SpecRegisterForm == Init /\ [][RegNext]_vars

\* validatePassword and the submission of the registration form, over the
\* password cases
InitTyped ==
    MwInit /\ MailInit /\ DprInit /\ RegTypedInit /\ RpfInit /\ FpfInit /\ page = "none"
           /\ TokInit /\ AsInit /\ HookInit /\ NavInit

SpecRegisterPassword == InitTyped /\ [][RegTypedNext]_vars

\* The reset-password form
SpecResetPasswordForm == Init /\ [][RpfNext]_vars

\* The forgot-password forms
SpecForgotPassword == Init /\ [][FpfNext]_vars

\* All the forms, one page at a time
SpecForms == Init /\ [][FormsNext]_vars

InitUrl ==
    MwInit /\ MailInit /\ DprInit /\ RegInit /\ RpfInit /\ FpfInit /\ page = "none"
           /\ TokUrlInit /\ AsInit /\ HookInit /\ NavInit

\* The operations of AuthService against the provider
SpecAuthService == Init /\ [][AsNext]_vars

\* extractTokensFromUrl over the callback URLs
SpecExtractTokens == InitUrl /\ [][TokNext]_vars

InitLink ==
    MwInit /\ MailInit /\ DprInit /\ RegInit /\ RpfInit /\ FpfInit /\ page = "none"
           /\ TokLinkInit /\ AsInit /\ HookInit /\ NavInit

\* PasswordResetService.updatePassword on the reset-password page
SpecPasswordResetService == InitLink /\ [][PrsNext]_vars

\* The components using useSupabaseSession, mounted and torn down while the
\* provider's session changes
SpecSessionHook == Init /\ [][HookNext]_vars

\* The pages under the auth context
SpecPages == Init /\ [][NavNext]_vars

\* The dashboard password form over one password and one code, every answer
\* of the provider still possible
DprLiveNext ==
    \/ \E f \in {"password", "confirmPassword"}, v \in {"", "Abcdef1!"} : DprInputChange(f, v)
    \/ \E v \in {"", "123456"} : DprInputChange("nonce", v)
    \/ DprSubmit
    \/ DprSubmitEvent
    \/ \E o \in UpdateUserOutcomes(submission.updateData) : DprUpdateSettles(o)
    \/ DprClickSendReauth
    \/ \E o \in ReauthenticateOutcomes : DprReauthSettles(o)
    \/ DprResetForm

\* The dashboard password form with a provider whose calls all settle: the
\* awaited promise of updateUser and of reauthenticate resolves or rejects
SpecDashboardResetLive ==
    /\ Init
    /\ [][DprLiveNext]_vars
    /\ WF_vars(\E o \in UpdateUserOutcomes(submission.updateData) : DprUpdateSettles(o))
    /\ WF_vars(\E o \in ReauthenticateOutcomes : DprReauthSettles(o))

(***************************************************************************)
(* Properties of updateSession                                             *)
(***************************************************************************)

\* The route sets as the specification lists them
ProtectedPathSet ==
    {"/dashboard", "/profile", "/favorites", "/watchlist", "/reviews/create", "/movies/rate"}
AuthOnlyPathSet ==
    {"/auth/login", "/auth/register", "/auth/forgot-password", "/auth/reset-password"}
CallbackPathSet == {"/auth/callback", "/auth/auth-code-error"}

Returned == mwPc = "done"
IsRedirectTo(resp, pathname) == resp.kind = "redirect" /\ resp.location.pathname = pathname
IsLoginRedirectFor(resp, pathname) ==
    /\ IsRedirectTo(resp, "/auth/login")
    /\ SearchParamsGet(resp.location, "redirectTo") = pathname

\* C1: for every path of the protected set, updateSession called when getUser
\* yields no user returns a redirect to /auth/login whose redirectTo parameter
\* is the requested path.
C1_ProtectedWithoutSessionRedirectsToLogin ==
    (Returned /\ reqPath \in ProtectedPathSet /\ mwUser = Null)
        => IsLoginRedirectFor(mwResult, reqPath)

C1_Witness ==
    /\ Returned /\ reqPath = "/watchlist" /\ mwUser = Null
    /\ mwError = "AuthSessionMissingError"
    /\ IsLoginRedirectFor(mwResult, "/watchlist")

\* C2: for every path of the auth-only set, updateSession called with a valid
\* session (getUser yields a user) returns a redirect to /dashboard.
C2_AuthOnlyWithSessionRedirectsToDashboard ==
    (Returned /\ reqPath \in AuthOnlyPathSet /\ mwUser # Null)
        => /\ IsRedirectTo(mwResult, "/dashboard")
           /\ mwResult.location.searchParams = <<>>

C2_Witness ==
    /\ Returned /\ reqPath = "/auth/reset-password" /\ mwUser = UserOf
    /\ IsRedirectTo(mwResult, "/dashboard")

\* C3: for every path of the callback set, updateSession never returns a
\* redirect: with a user, without one, and when the provider call failed.
C3_CallbackNeverRedirected ==
    reqPath \in CallbackPathSet => mwResult.kind # "redirect"

C3_Witness ==
    /\ Returned /\ reqPath = "/auth/callback" /\ mwUser = UserOf
    /\ mwResult.kind = "next"

\* The provider call failed: getUser rejected, or resolved with an error other
\* than "there is no session"
ProviderCallFailed ==
    \/ mwPc = "threw"
    \/ Returned /\ mwError \in {"AuthRetryableFetchError", "AuthApiError"}

\* C4: when the provider call fails the request is handled as if no session
\* were present (a protected path is redirected to /auth/login, an auth-only
\* path is passed through) and the failure does not leave updateSession as an
\* exception.
C4_ProviderFailureHandledAsNoSession ==
    (ProviderCallFailed /\ reqPath \in ProtectedPathSet \cup AuthOnlyPathSet)
        => /\ mwPc # "threw"
           /\ reqPath \in ProtectedPathSet => IsLoginRedirectFor(mwResult, reqPath)
           /\ reqPath \in AuthOnlyPathSet => mwResult = response

\* The two cases in which the decision table redirects, the path classes being
\* those of the middleware: protected and callback by prefix, auth-only exactly
InProtectedClass(pathname) == \E r \in ProtectedPathSet : StartsWith(pathname, r)
InAuthOnlyClass(pathname) == pathname \in AuthOnlyPathSet
RedirectCase ==
    \/ InProtectedClass(reqPath) /\ mwUser = Null
    \/ InAuthOnlyClass(reqPath) /\ mwUser # Null

\* C5: updateSession redirects in exactly two cases, a protected path without
\* a session and an auth-only path with one; in every other combination of
\* path and session state it returns the pass-through response.
C5_RedirectOnlyInTheTwoCases ==
    Returned => IF RedirectCase THEN mwResult.kind = "redirect"
                ELSE mwResult.kind = "next" /\ mwResult = response

C5_Witness ==
    /\ Returned /\ reqPath = "/dashboard/settings" /\ mwUser = UserOf
    /\ mwResult.kind = "next"

\* The provider refreshed the session during this call: it handed the new
\* token pair to cookies.setAll
SessionRefreshed ==
    \E i \in 1..Len(setAllCalls) :
        \E j \in 1..Len(setAllCalls[i]) :
            setAllCalls[i][j] = [name |-> TokenCookie, value |-> RefreshedPair]

\* C6: whenever the session was refreshed during updateSession, the response
\* it returns, pass-through or redirect, carries the new token pair in its
\* cookies.
C6_ReturnedResponseCarriesRefreshedPair ==
    (Returned /\ SessionRefreshed) => mwResult.cookies[TokenCookie] = RefreshedPair

(***************************************************************************)
(* Properties of the password reset e-mail operations                      *)
(***************************************************************************)

MailReturned == mailPc = "done"
MailResultOf(service, outcome) ==
    IF service = "AuthService" THEN sendPasswordResetEmail(outcome) ELSE sendResetEmail(outcome)

\* The results a caller can see for an address that has, or has not, an account
MailResultsFor(service, exists) ==
    {MailResultOf(service, o) : o \in ResetEmailOutcomesFor(exists)}

\* The provider refused or failed for a reason that has nothing to do with
\* the address
ProviderUnavailable(outcome) ==
    ProviderThrows(outcome) \/ outcome.message = RateLimitMessage

SubmissionDone == submission.phase = "done"
ReauthRequiredRejection == submission.outcome = ErrorOutcome(ReauthNeededMessage)
NonceRejection == submission.outcome = ErrorOutcome(NonceInvalidMessage)
NonceErrorText == "Invalid or expired verification code. Please try again."

\* C8 as stated: a reauthentication-required rejection of a submission made
\* without a nonce dispatches exactly one reauthenticate() call and the flow
\* moves to NeedsReauth.
C8_ReauthRequiredMovesToNeedsReauth ==
    (SubmissionDone /\ ReauthRequiredRejection /\ ~closure.needsReauth)
        => submission.reauthCalls = 1 /\ needsReauth

\* C8 amended: such a rejection dispatches exactly one reauthenticate() call
\* and is no success; the flow moves to NeedsReauth (needsReauth and reauthSent
\* true) exactly when that call succeeds; when it fails the flow stays where
\* it was, the form enabled again under a "Failed to send verification code"
\* toast.
C8_ReauthRequiredSendsOneNonce ==
    /\ (submission.phase # "none" /\ ReauthRequiredRejection /\ ~closure.needsReauth)
          => /\ submission.reauthCalls = 1
             /\ submission.branch = "sendReauth"
             /\ submission.onSuccessCalls = 0
    /\ (SubmissionDone /\ ReauthRequiredRejection /\ ~closure.needsReauth)
          => /\ needsReauth <=> submission.reauthOk
             /\ reauthSent <=> submission.reauthOk
             /\ ~isSuccess
             /\ ~submission.reauthOk
                   => /\ ~isLoading /\ dprPc = "idle"
                      /\ toast.kind = "error"
                      /\ StartsWith(toast.text, "Failed to send verification code")

C8_Witness ==
    /\ SubmissionDone /\ ReauthRequiredRejection /\ ~closure.needsReauth
    /\ submission.reauthCalls = 1 /\ submission.reauthOk
    /\ needsReauth /\ dprPc = "idle" /\ ~isLoading

\* C9: a resubmission in NeedsReauth that the provider rejects for the nonce
\* leaves the flow in NeedsReauth with the inline error on the nonce field and
\* dispatches no reauthenticate() call; in NeedsReauth a reauthenticate() call
\* is only ever started by the resend button.
C9_BadNonceStaysInNeedsReauth ==
    /\ []((submission.phase # "none" /\ closure.needsReauth)
             => submission.reauthCalls = 0 /\ dprPc # "awaitReauthAuto")
    /\ []((needsReauth /\ dprPc \in {"awaitReauthAuto", "awaitReauthUser"})
             => dprPc = "awaitReauthUser" /\ lastReauth.by = "user")
    /\ [][(dprPc = "awaitUpdate" /\ closure.needsReauth
              /\ submission'.outcome = ErrorOutcome(NonceInvalidMessage))
             => /\ needsReauth' /\ reauthSent'
                /\ errors' = [NoErrors EXCEPT !.nonce = NonceErrorText]
                /\ ~isSuccess' /\ ~isLoading' /\ dprPc' = "idle"
                /\ submission'.reauthCalls = 0]_vars

C9_Witness ==
    /\ SubmissionDone /\ NonceRejection /\ closure.needsReauth
    /\ needsReauth /\ errors.nonce = NonceErrorText
    /\ submission.reauthCalls = 0 /\ dprPc = "idle"

\* C10: in NeedsReauth every resubmission passes the nonce the user entered to
\* updatePassword, which forwards it to the provider, and when the provider
\* accepts it the flow reaches Success (isSuccess true, onSuccess invoked).
C10_ResubmissionCarriesNonceAndSucceeds ==
    /\ []((submission.phase # "none" /\ closure.needsReauth)
             => /\ submission.updateData.hasNonce
                /\ submission.updateData.nonce = closure.formData.nonce
                /\ submission.updateData.nonce # ""
                /\ submission.updateData.password = closure.formData.password)
    /\ [](dprPc = "awaitUpdate" => formData = closure.formData)
    /\ [][(dprPc = "awaitUpdate" /\ closure.needsReauth /\ ProviderOk(submission'.outcome))
             => /\ isSuccess' /\ submission'.onSuccessCalls = 1
                /\ ~isLoading' /\ dprPc' = "idle"]_vars

C10_Witness ==
    /\ SubmissionDone /\ closure.needsReauth /\ ProviderOk(submission.outcome)
    /\ submission.updateData.nonce = "123456"
    /\ isSuccess /\ submission.onSuccessCalls = 1

(***************************************************************************)
(* Properties of DashboardPasswordReset: the unchanged password, the empty *)
(* nonce                                                                   *)
(***************************************************************************)

SamePasswordToast ==
    ToastError("New password must be different from your current password. Please choose a different password.")

\* The step in which the pending updatePassword call resolves with a rejection
\* that says the password is unchanged
SamePasswordRejected ==
    /\ dprPc = "awaitUpdate" /\ dprPc' # "awaitUpdate"
    /\ submission'.outcome.kind = "error"
    /\ submission'.outcome.message \in SamePasswordMessages

\* C11: when the provider rejects an update because the new password equals
\* the current one, the form shows the "must be different" message, ends the
\* submission, calls reauthenticate() not at all and leaves needsReauth (and
\* reauthSent and the field errors) as they were, and does not show the
\* provider's text, whatever else that text contains.
C11_SamePasswordTakesItsOwnBranch ==
    /\ [][SamePasswordRejected =>
             /\ toast' = SamePasswordToast
             /\ submission'.branch = "samePassword"
             /\ submission'.phase = "done"
             /\ submission'.reauthCalls = 0
             /\ dprPc' = "idle" /\ isLoading' = FALSE /\ isSuccess' = isSuccess
             /\ UNCHANGED <<needsReauth, reauthSent, errors, formData>>]_vars
    /\ [](submission.outcome.kind = "error"
           /\ submission.outcome.message \in SamePasswordMessages
           => submission.reauthCalls = 0 /\ submission.branch = "samePassword")

\* Reached: a rejection whose text carries "reauthentication" and "nonce" next
\* to the same-password sentence, answered with the specific message, once
\* before and once after the form asked for a code
C11_Witness ==
    /\ submission.phase = "done"
    /\ submission.outcome = ErrorOutcome(SamePasswordReauthMessage)
    /\ toast = SamePasswordToast
    /\ ~needsReauth /\ ~reauthSent /\ dprPc = "idle" /\ ~isLoading

\* C12: while the form needs reauthentication, no updatePassword call goes out
\* with an empty nonce: the submit button is disabled while the nonce is empty,
\* and a submission with an empty nonce ends in validateForm with "Verification
\* code is required" and without a call.
C12_NoUpdateWithEmptyNonce ==
    /\ [](needsReauth /\ formData.nonce = "" => ~SubmitEnabled)
    /\ [][(DprSubmit \/ DprSubmitEvent) /\ needsReauth /\ formData.nonce = "" =>
             /\ errors'.nonce = "Verification code is required"
             /\ dprPc' = "idle" /\ isLoading' = FALSE
             /\ submission' = submission]_vars
    /\ [](submission.phase # "none" /\ closure.needsReauth =>
             /\ submission.updateData.hasNonce
             /\ submission.updateData.nonce # ""
             /\ submission.updateData.nonce = closure.formData.nonce)

\* Reached: in NeedsReauth, both passwords valid, the nonce empty, and the
\* submission turned down by validateForm on the nonce alone
C12_Witness ==
    /\ needsReauth /\ formData.nonce = "" /\ dprPc = "idle"
    /\ errors = [NoErrors EXCEPT !.nonce = "Verification code is required"]
    /\ validatePassword(formData.password) = ""
    /\ formData.confirmPassword = formData.password

(***************************************************************************)
(* Properties of the forms                                                 *)
(***************************************************************************)

\* The password policy: at least 8 characters, a lowercase letter, an
\* uppercase letter, a digit and a symbol
PasswordPolicy(password) ==
    /\ Len(password) >= 8
    /\ HasCharIn(password, LowerChars) /\ HasCharIn(password, UpperChars)
    /\ HasCharIn(password, DigitChars) /\ HasCharIn(password, SpecialChars)

\* C13: every call a form makes to the auth service carries field values that
\* pass the form's validation: signUp a well-formed address, a name, a password
\* that satisfies the policy and equals its confirmation; updatePassword (reset
\* form and dashboard form) a password that satisfies the policy and equals its
\* confirmation; the send-reset-email call a well-formed address.
C13_CallsCarryValidatedFields ==
    /\ regCall.made =>
          /\ emailRegexTest(regCall.formData.email)
          /\ Trim(regCall.formData.fullName) # ""
          /\ PasswordPolicy(regCall.formData.password)
          /\ regCall.formData.confirmPassword = regCall.formData.password
    /\ rpfCall.made =>
          /\ PasswordPolicy(rpfCall.formData.password)
          /\ rpfCall.formData.confirmPassword = rpfCall.formData.password
    /\ submission.phase # "none" =>
          /\ submission.updateData.password = closure.formData.password
          /\ PasswordPolicy(closure.formData.password)
          /\ closure.formData.confirmPassword = closure.formData.password
    /\ fpfCall.made => emailRegexTest(fpfCall.email)

\* Reached: the reset form awaiting updatePassword with a password that
\* satisfies the policy and equals its confirmation
C13_Witness ==
    /\ page = "reset-password" /\ rpfPc = "awaitUpdate" /\ rpfCall.made
    /\ rpfCall.formData = [password |-> "Zyxwvu9#", confirmPassword |-> "Zyxwvu9#"]

\* The rules of the password field in their order, and their messages
PasswordRuleMet(i, password) ==
    CASE i = 1 -> password # ""
      [] i = 2 -> Len(password) >= 8
      [] i = 3 -> Len(password) <= 128
      [] i = 4 -> \E k \in 1..Len(password) : SubSeq(password, k, k) \in LowerChars
      [] i = 5 -> \E k \in 1..Len(password) : SubSeq(password, k, k) \in UpperChars
      [] i = 6 -> \E k \in 1..Len(password) : SubSeq(password, k, k) \in DigitChars
      [] i = 7 -> \E k \in 1..Len(password) : SubSeq(password, k, k) \in SpecialChars

PasswordRuleMessage ==
    <<"Password is required",
      "Password must be at least 8 characters",
      "Password is too long",
      "Password must contain at least one lowercase letter",
      "Password must contain at least one uppercase letter",
      "Password must contain at least one number",
      "Password must contain at least one special character">>

FirstUnmetRule(password) ==
    LET unmet == {i \in 1..7 : ~PasswordRuleMet(i, password)}
    IN  IF unmet = {} THEN 0 ELSE CHOOSE i \in unmet : \A j \in unmet : i <= j

FirstUnmetMessage(password) ==
    IF FirstUnmetRule(password) = 0 THEN "" ELSE PasswordRuleMessage[FirstUnmetRule(password)]

\* C14: validatePassword gives the message of the first rule the password does
\* not meet, in the order required, at least 8 characters, at most 128,
\* lowercase, uppercase, digit, special character, and the empty string exactly
\* when all are met; a submission whose password breaks a rule shows that
\* message and calls signUp not at all; "weak" gets "Password must be at least
\* 8 characters".
C14_FirstUnmetRuleAndNoCall ==
    /\ [](regErrors.password \in {"", FirstUnmetMessage(regData.password)})
    /\ [][RegValidateTimer \/ (RegSubmit /\ FirstUnmetRule(regData.password) # 0) =>
             regErrors'.password = FirstUnmetMessage(regData.password)]_vars
    /\ [][RegSubmit =>
             IF FirstUnmetRule(regData.password) = 0
             THEN regPc' = "awaitSignUp" /\ regCall'.made /\ regCall'.formData = regData
             ELSE regPc' = "idle" /\ regCall' = regCall /\ regLoading' = FALSE]_vars
    /\ [](regCall.made => FirstUnmetRule(regCall.formData.password) = 0)
    /\ [](regData.password = "weak" =>
             /\ ~regCall.made /\ regPc = "idle"
             /\ regErrors.password \in {"", "Password must be at least 8 characters"})

\* Reached: "weak" submitted and answered with the length message, no call made
C14_Witness ==
    /\ regData.password = "weak"
    /\ regErrors.password = "Password must be at least 8 characters"
    /\ regTimers # <<>>
    /\ ~regCall.made /\ regPc = "idle" /\ ~regLoading

(***************************************************************************)
(* Properties of extractTokensFromUrl                                      *)
(***************************************************************************)

\* The tokens a parameter string carries, read off the string itself: the text
\* after "access_token=" / "refresh_token=" up to the next "&" ("" when the
\* name does not occur)
CarriedToken(part, name) ==
    LET key == name \o "="
        at  == {i \in 1..Len(part) :
                   /\ i + Len(key) - 1 <= Len(part)
                   /\ SubSeq(part, i, i + Len(key) - 1) = key
                   /\ (i = 1 \/ SubSeq(part, i - 1, i - 1) \in {"&", "?", "#"})}
    IN  IF at = {} THEN ""
        ELSE LET from == (CHOOSE i \in at : \A j \in at : i <= j) + Len(key)
                 stop == {j \in from..Len(part) : SubSeq(part, j, j) = "&"}
             IN  SubSeq(part, from,
                        IF stop = {} THEN Len(part)
                        ELSE (CHOOSE j \in stop : \A k \in stop : j <= k) - 1)

CarriesPair(part) ==
    CarriedToken(part, "access_token") # "" /\ CarriedToken(part, "refresh_token") # ""
CarriesNoToken(part) ==
    CarriedToken(part, "access_token") = "" /\ CarriedToken(part, "refresh_token") = ""

\* C15: when the query string or the fragment of the URL carries the token
\* pair, extractTokensFromUrl returns an access token and a refresh token, and
\* they are the tokens of that pair when the other part of the URL carries no
\* token; when neither part carries a token it returns neither.
C15_BothTokensFromQueryOrFragment ==
    tokPc = "done" /\ location.window =>
        /\ CarriesPair(location.search) \/ CarriesPair(location.hash) =>
               tokResult.accessToken # Undefined /\ tokResult.refreshToken # Undefined
        /\ CarriesPair(location.search) /\ CarriesNoToken(location.hash) =>
               /\ FormDecode(CarriedToken(location.search, "access_token")) = tokResult.accessToken
               /\ FormDecode(CarriedToken(location.search, "refresh_token")) = tokResult.refreshToken
        /\ CarriesPair(location.hash) /\ CarriesNoToken(location.search) =>
               /\ FormDecode(CarriedToken(location.hash, "access_token")) = tokResult.accessToken
               /\ FormDecode(CarriedToken(location.hash, "refresh_token")) = tokResult.refreshToken
        /\ CarriesNoToken(location.search) /\ CarriesNoToken(location.hash) =>
               tokResult = NoTokens

\* Reached: the pair read from a query string, the fragment carrying an error
C15_Witness ==
    /\ tokPc = "done"
    /\ location.search = "?access_token=eyJh.eyJz.sig1&refresh_token=r3fr3sh1"
    /\ location.hash # "" /\ CarriesNoToken(location.hash)
    /\ tokResult = [accessToken |-> "eyJh.eyJz.sig1", refreshToken |-> "r3fr3sh1"]

(***************************************************************************)
(* Properties of AuthService                                               *)
(***************************************************************************)

AsReturned(op) == asPc = "done" /\ asCall.op = op

\* C16: verifyPasswordResetToken returns valid = true exactly when the
\* provider's getSession answers and a session existed when the operation was
\* called; when getSession reports an error or throws, it returns valid = false
\* together with an error.
C16_ValidIffSession ==
    AsReturned("verifyPasswordResetToken") =>
        /\ ProviderOk(asOutcome) => (asResult.valid <=> asCall.session)
        /\ asResult.valid => asResult.error.isNull
        /\ ~ProviderOk(asOutcome) =>
               ~asResult.valid /\ ~asResult.error.isNull /\ asResult.error.message # ""

\* Reached: both answers of a getSession that resolved, and a failure
C16_Witness ==
    /\ AsReturned("verifyPasswordResetToken")
    /\ ProviderOk(asOutcome) /\ asCall.session /\ asResult.valid

\* The operation did what it was called for
AsSucceeded ==
    /\ ProviderOk(asOutcome)
    /\ asCall.op = "verifyPasswordResetToken" => asCall.session

\* C17: no operation of AuthService throws or rejects: its promise is
\* fulfilled with a result; when the provider reported an error or threw, the
\* result's error holds a message; on success the error is null.
C17_OperationsNeverReject ==
    asPc = "done" =>
        /\ asResult.settled = "fulfilled"
        /\ ~ProviderOk(asOutcome) => ~asResult.error.isNull /\ asResult.error.message # ""
        /\ AsSucceeded <=> asResult.error.isNull

\* Reached: the provider client threw inside signInWithOAuth and the
\* operation returned an error result
C17_Witness ==
    /\ AsReturned("signInWithOAuth") /\ asCall.arg = "github"
    /\ ProviderThrows(asOutcome)
    /\ asResult.settled = "fulfilled"
    /\ asResult.error = ErrorOf("Failed to sign in with github")

\* The fixed message of each operation's catch
FixedMessage(op, arg) ==
    CASE op = "getSession" -> "Failed to get session"
      [] op = "getUser" -> "Failed to get user"
      [] op = "signInWithPassword" -> "Failed to sign in"
      [] op = "signUp" -> "Failed to sign up"
      [] op = "signOut" -> "Failed to sign out"
      [] op = "sendPasswordResetEmail" -> "Failed to send password reset email"
      [] op = "updatePassword" -> "Failed to update password"
      [] op = "verifyPasswordResetToken" -> "Failed to verify reset token"
      [] op = "signInWithOAuth" -> "Failed to sign in with " \o arg
      [] op = "reauthenticate" -> "Failed to send reauthentication nonce"

\* C18: when the provider client throws inside an operation of AuthService,
\* the operation returns the fixed message of that operation and never the text
\* of what was thrown; so for every operation, updatePassword included.
C18_ThrowGivesFixedMessage ==
    asPc = "done" /\ ProviderThrows(asOutcome) =>
        /\ asResult.error.message = FixedMessage(asCall.op, asCall.arg)
        /\ asOutcome.isError => asResult.error.message # asOutcome.message

(***************************************************************************)
(* Properties of the forgot-password forms                                 *)
(***************************************************************************)

\* The send-reset-email call of the form resolves in this step
FpfResolves == fpfPc = "await" /\ fpfPc' = "idle"

\* C19 as stated: the forgot-password form shows "Check your email" (isSuccess)
\* only once its send-reset-email call has resolved, never while the call is
\* in flight, and shows it on every resolution of the call.
C19_EmailSentOnEveryResolution ==
    /\ [](fpfPc = "await" => ~fpfSuccess)
    /\ [][fpfSuccess' /\ ~fpfSuccess => FpfResolves]_vars
    /\ [][FpfResolves => fpfSuccess']_vars

\* C19 as the code has it: isSuccess is set only in the step in which the call
\* resolves, never while it is in flight, and exactly when the call resolved
\* without an error, be there an account for the address or not; a resolution
\* with an error leaves the form on the screen with the error's message (for a
\* thrown call: "Failed to send password reset email").
C19_EmailSentOnResolutionWithoutError ==
    /\ [](fpfPc = "await" => ~fpfSuccess)
    /\ [][fpfSuccess' /\ ~fpfSuccess => FpfResolves]_vars
    /\ [][FpfResolves =>
             /\ fpfSuccess' <=> ProviderOk(fpfCall'.outcome)
             /\ ProviderError(fpfCall'.outcome) => fpfError' = fpfCall'.outcome.message
             /\ ProviderThrows(fpfCall'.outcome) =>
                    fpfError' = "Failed to send password reset email"
             /\ fpfLoading' = FALSE]_vars

\* Reached: "Check your email" for an address that has no account
C19_Witness ==
    /\ fpfSuccess /\ fpfPc = "idle" /\ fpfCall.made
    /\ ProviderOk(fpfCall.outcome)
    /\ fpfCall.email \notin accounts /\ accounts # {}

(***************************************************************************)
(* Properties of useSupabaseSession                                        *)
(***************************************************************************)

\* The subscription of a component is unsubscribed once when the component is
\* torn down, and not before
UnsubscribedOnceOnTeardown ==
    \A c \in Components :
        unsubscribeCalls[c] = IF hookStatus[c] = "gone" THEN 1 ELSE 0

\* As many live listeners as mounted components
ListenersMatchMounted ==
    Cardinality(listeners) = Cardinality({c \in Components : hookStatus[c] = "mounted"})

\* No setSession on a component torn down
NoSetSessionAfterTeardown ==
    \A c \in Components : ~lateSetSession[c]

ConfirmEmailMessage ==
    "Success! Please check your email to confirm your account before signing in."

\* The signUp call of RegisterForm resolves in this step, with a user
RegSignUpSucceeds ==
    /\ regPc = "awaitSignUp" /\ regPc' = "idle"
    /\ ProviderOk(regCall'.outcome) /\ regCall'.outcome.user

\* C22: after a signUp that succeeds the registration form branches on the
\* session: with a session the user goes on as signed in (no 'confirm your
\* email' message, no switch to the login form), without one the 'confirm your
\* email' message is shown.
C22_BranchesOnSession ==
    [][RegSignUpSucceeds =>
         IF regCall'.outcome.session
           THEN regErrors'.submit # ConfirmEmailMessage /\ regSwitch' # "pending"
           ELSE regErrors'.submit = ConfirmEmailMessage]_vars

(***************************************************************************)
(* Properties of ResetPasswordForm around the verification of the token    *)
(***************************************************************************)

\* C23: ResetPasswordForm shows 'Verifying reset link...' until
\* verifyPasswordResetToken has resolved; from then on it shows the
\* new-password form (or, after the update, the success view) only if the
\* result was valid and 'Invalid or expired link' exactly if it was not; and
\* updatePassword is never called unless the verification resolved valid.
C23_FormOnlyAfterValidVerification ==
    /\ [](RpfView = "verifying" <=> ~rpfVerify.settled)
    /\ [](rpfPc = "verify" <=> ~rpfVerify.settled)
    /\ [][rpfVerify'.settled /\ ~rpfVerify.settled =>
             RpfView' = IF rpfVerify'.valid THEN "form" ELSE "invalid-link"]_vars
    /\ [](rpfVerify.settled =>
             /\ RpfView = "invalid-link" <=> ~rpfVerify.valid
             /\ RpfView \in {"form", "success"} <=> rpfVerify.valid)
    /\ [](rpfCall.made => rpfVerify.settled /\ rpfVerify.valid)

\* Reached: updatePassword in flight from the form shown after a valid
\* verification
C23_Witness ==
    /\ rpfPc = "awaitUpdate" /\ rpfCall.made
    /\ rpfVerify.settled /\ rpfVerify.valid /\ RpfView = "form"

(***************************************************************************)
(* Properties of the requests of DashboardPasswordReset                    *)
(***************************************************************************)

\* A provider request of DashboardPasswordReset is in flight
DprInFlight == dprPc # "idle"

\* C24: at most one provider request of DashboardPasswordReset is in flight at
\* a time for a user acting through enabled controls: while a request is in
\* flight isLoading is true and so the submit button is disabled, from the
\* submit on and across the automatic reauthenticate(); nothing the user does
\* changes the component during that time, the only steps being the
\* resolution of the request in flight, so no second updatePassword starts.
C24_OneRequestInFlight ==
    /\ [](DprInFlight => isLoading /\ ~SubmitEnabled)
    /\ [][DprInFlight =>
             \/ dprPc' = "idle"
             \/ dprPc = "awaitUpdate" /\ dprPc' = "awaitReauthAuto" /\ isLoading'
             \/ UNCHANGED dprVars]_vars
    /\ [][DprInFlight' /\ (~DprInFlight \/ submission' # submission) =>
             \/ ~DprInFlight /\ ~isLoading
             \/ dprPc = "awaitUpdate" /\ dprPc' = "awaitReauthAuto"]_vars

\* Reached: the automatic reauthenticate() in flight, the form still loading
\* with all its fields filled in
C24_Witness ==
    /\ dprPc = "awaitReauthAuto" /\ isLoading
    /\ formData.password # "" /\ formData.confirmPassword # ""
    /\ submission.updateCalls = 1 /\ submission.reauthCalls = 1

(***************************************************************************)
(* Properties of the end of a submission of DashboardPasswordReset         *)
(***************************************************************************)

\* The last submission has ended with the form enabled again and its outcome
\* on the screen: the success view, the error under the code field, or a toast
DprSubmissionSurfaced ==
    /\ submission.phase = "done" /\ dprPc = "idle" /\ ~isLoading
    /\ CASE submission.branch = "success" -> isSuccess /\ toast.kind = "success"
         [] submission.branch = "badNonce" -> errors.nonce # ""
         [] submission.branch = "sendReauth" ->
                IF submission.reauthOk
                  THEN needsReauth /\ toast.kind = "success"
                  ELSE toast.kind = "error" /\ toast.text # ""
         [] OTHER -> toast.kind = "error" /\ toast.text # ""

\* C25: every submission of DashboardPasswordReset eventually ends with the
\* form enabled again (isLoading false) and with the Success state, an error
\* or a notice on the screen, whatever the provider answers (same password,
\* reauthentication required with the code sent or not, timeout, another
\* error, a thrown exception): none leaves the form loading for ever.
C25_SubmissionEndsSurfaced ==
    (submission.phase = "running") ~> DprSubmissionSurfaced

\* Reached: a submission ended after the automatic reauthenticate() failed,
\* the form enabled again and the failure in a toast
C25_Witness ==
    /\ DprSubmissionSurfaced
    /\ submission.branch = "sendReauth" /\ ~submission.reauthOk
    /\ ~needsReauth

(***************************************************************************)
(* Properties of the reauthentication flags of DashboardPasswordReset      *)
(***************************************************************************)

\* C26: in DashboardPasswordReset needsReauth and reauthSent are equal in every
\* reachable state, so the state needsReauth and not reauthSent, in which the
\* 'Send Code' button is shown, is never reached; both are set only by a
\* reauthenticate() that succeeded, so the code field (shown when needsReauth)
\* appears only after a code was dispatched, and both are cleared only by
\* resetForm.
C26_ReauthFlagsEqual ==
    /\ [](needsReauth = reauthSent)
    /\ [][needsReauth' /\ ~needsReauth =>
             /\ dprPc \in {"awaitReauthAuto", "awaitReauthUser"}
             /\ lastReauth'.ok]_vars
    /\ [][needsReauth /\ ~needsReauth' => isSuccess /\ ~isSuccess' /\ formData' = EmptyForm]_vars

\* Reached: the code field on the screen after a dispatch, and a later
\* 'Send again' that failed
C26_Witness ==
    /\ needsReauth /\ reauthSent
    /\ lastReauth.by = "user" /\ ~lastReauth.ok /\ dprPc = "idle"

(***************************************************************************)
(* Properties of the redirects of updateSession, followed                  *)
(***************************************************************************)

\* C27: following the redirects of updateSession never loops: when the request
\* for the target of a redirect finds the session as the redirected request
\* found it (the same user, or again none), the target (/auth/login without a
\* session, /dashboard with one) is passed through, so that a navigation has
\* at most one redirect.
C27_RedirectTargetPassesThrough ==
    /\ [](mwPc = "done" /\ mwResult.kind = "redirect" =>
             mwResult.location.pathname =
                 IF mwUser = Null THEN "/auth/login" ELSE "/dashboard")
    /\ [](mwPc = "done" /\ mwNav.hops >= 1 /\ mwNav.same =>
             mwNav.hops = 1 /\ mwResult.kind = "next")

\* Reached: a signed-in user asked for an auth page, was sent to /dashboard,
\* and the request for /dashboard passed
C27_Witness ==
    /\ mwPc = "done" /\ mwNav.hops = 1 /\ mwNav.same
    /\ mwUser # Null /\ reqPath = "/dashboard" /\ mwResult.kind = "next"

(***************************************************************************)
(* Properties of the session useSupabaseSession holds                      *)
(***************************************************************************)

\* The getSession() promise of component c has resolved
GetSessionResolved(c) == \A promise \in pendingGetSession : promise.component # c

\* C28: the session useSupabaseSession holds is the most recent one the
\* provider reported: once the first getSession() has resolved, whether before
\* or after auth-state-change events, a mounted component holds the
\* provider's current session; a getSession() result that resolves after an
\* event does not put an older session in its place.
C28_HeldSessionIsLatest ==
    \A c \in Components :
        hookStatus[c] = "mounted" /\ GetSessionResolved(c) => hookSession[c] = providerSession

(***************************************************************************)
(* Route classification of updateSession                                   *)
(***************************************************************************)

BeginsWithOneOf(pathname, prefixes) == \E prefix \in prefixes : StartsWith(pathname, prefix)

\* C29: updateSession classifies by path prefix for the protected and the
\* callback sets and by exact match for the auth-only set.  When it has
\* returned: a path that begins with a callback path passes; without a
\* session every path that begins with a protected path (a sub-path or a
\* sibling such as /profile-x) is redirected to login with redirectTo set to
\* that path; with a session exactly the paths of the auth-only set are
\* redirected to /dashboard, so an auth-only path with a suffix (such as
\* /auth/login/) is not redirected.
C29_PrefixForProtectedExactForAuthOnly ==
    Returned =>
        /\ BeginsWithOneOf(reqPath, CallbackPathSet) => mwResult.kind # "redirect"
        /\ mwUser = Null /\ BeginsWithOneOf(reqPath, ProtectedPathSet)
               => IsLoginRedirectFor(mwResult, reqPath)
        /\ mwUser # Null /\ reqPath \in AuthOnlyPathSet
               => IsRedirectTo(mwResult, "/dashboard")
        /\ mwUser # Null /\ reqPath \notin AuthOnlyPathSet
               => mwResult.kind # "redirect"

\* A sibling of a protected path was requested without a session and sent to
\* login
C29_Witness ==
    /\ Returned
    /\ mwUser = Null
    /\ reqPath = "/profile-x"
    /\ reqPath \notin ProtectedPathSet
    /\ IsLoginRedirectFor(mwResult, "/profile-x")

\* A signed-in request for an auth-only path with a suffix passed
C29_SuffixedAuthPathPasses ==
    /\ Returned
    /\ mwUser # Null
    /\ reqPath = "/auth/login/"
    /\ mwResult.kind # "redirect"

(***************************************************************************)
(* PasswordResetService.updatePassword                                     *)
(***************************************************************************)

CalledUpdateUser(call) ==
    \E i \in 1..Len(call.providerCalls) : call.providerCalls[i] = "updateUser"

\* updateUser is the second provider call of a call whose verifyResetSession
\* has returned success; a failed verification is the call's result
UpdateUserOnlyAfterVerification ==
    \A c \in CallIds :
        LET call == prsCalls[c]
        IN  /\ CalledUpdateUser(call) =>
                  /\ call.sessionResult.returned /\ call.sessionResult.success
                  /\ Len(call.providerCalls) = 2
                  /\ call.providerCalls[1] \in {"setSession", "getSession"}
                  /\ call.providerCalls[2] = "updateUser"
            /\ call.sessionResult.returned /\ ~call.sessionResult.success =>
                  /\ call.pc = "done"
                  /\ call.result = call.sessionResult
                  /\ ~CalledUpdateUser(call)

\* The step in which updateUser of call c settles
UpdateUserSettled(c) == prsCalls[c].pc = "awaitUpdateUser" /\ prsCalls'[c].pc = "done"

\* C30: updatePassword calls the provider's updateUser only after
\* verifyResetSession has succeeded within the same call, and returns a failed
\* verification as its result without calling updateUser; the URL changes
\* only in the step in which an updateUser settles with success, which leaves
\* it without token parameters, and a failed update leaves the URL, and so
\* the tokens of the link, as they were.
C30_UpdateOnlyAfterVerificationUrlKeptOnFailure ==
    /\ []UpdateUserOnlyAfterVerification
    /\ [][\A c \in CallIds :
             ~CalledUpdateUser(prsCalls[c]) /\ CalledUpdateUser(prsCalls'[c]) =>
                 /\ prsCalls[c].pc \in {"awaitSetSession", "awaitGetSession"}
                 /\ prsCalls'[c].sessionResult.success]_vars
    /\ [][location' # location =>
             /\ \E c \in CallIds : UpdateUserSettled(c) /\ prsCalls'[c].result.success
             /\ location'.search = "" /\ location'.hash = ""]_vars
    /\ [][\A c \in CallIds :
             UpdateUserSettled(c) /\ ~prsCalls'[c].result.success =>
                 /\ location' = location
                 /\ extractTokensFromUrl(location') = extractTokensFromUrl(location)]_vars

\* An update failed with the link's tokens in the URL, and a call made after
\* it verified with the same tokens and has reached updateUser
C30_Witness ==
    \E c, d \in CallIds :
        /\ c # d
        /\ prsCalls[d].pc = "done"
        /\ prsCalls[d].providerCalls = <<"setSession", "updateUser">>
        /\ ~prsCalls[d].result.success
        /\ prsCalls[c].afterFailedUpdate
        /\ prsCalls[c].pc = "awaitUpdateUser"
        /\ prsCalls[c].providerCalls = <<"setSession", "updateUser">>
        /\ extractTokensFromUrl(location) # NoTokens

\* A verification failed and was returned, updateUser not called
C30_FailedVerificationReturned ==
    \E c \in CallIds :
        /\ prsCalls[c].pc = "done"
        /\ prsCalls[c].result = Failure("Invalid or expired reset link")
        /\ prsCalls[c].providerCalls = <<"setSession">>

\* An update succeeded and the tokens are gone from the URL
C30_UrlCleanedAfterSuccess ==
    \E c \in CallIds :
        /\ prsCalls[c].pc = "done"
        /\ prsCalls[c].result.success
        /\ prsCalls[c].providerCalls = <<"setSession", "updateUser">>
        /\ location.search = "" /\ location.hash = ""
====
